---- MODULE Spec2Model ----
(***************************************************************************)
(* Windmark (gemrest/windmark): the Gemini request dispatcher of           *)
(* src/src/router.rs.  A Router is configured (mount, add_header,          *)
(* add_footer, attach, attach_async, set_post_route_callback,              *)
(* set_fix_path, set_character_set, set_languages), then run() serves      *)
(* connections: every connection goes through Router::handle, modelled     *)
(* here lock section by lock section, a loop over a module list turn by    *)
(* turn.  The older Router::handle of src/src/lib.rs is modelled where it  *)
(* differs.  run() itself is modelled from the building of the TLS         *)
(* acceptor to the accept loop, with the errors a connection can meet at   *)
(* its handshake, read, write and shutdown; a second Router value stands   *)
(* for a clone; utilities::normalize_path_slashes is modelled as a         *)
(* function of its own.  For the locks of handle() its statements are      *)
(* also taken apart into lock(), the call made under the guard and the     *)
(* drop of the guard, with panics and the poisoning of a std mutex.        *)
(*                                                                         *)
(* Text is modelled byte by byte: a string is a sequence of one-character  *)
(* strings, so that spaces, newlines and CRLF on the wire are visible.     *)
(***************************************************************************)
EXTENDS Integers, Sequences, FiniteSets, TLC

\* ---------------------------------------------------------------- bounds

\* longest request path (in characters) a client sends
MaxPathLen == 4
\* most header partials / footer partials registered before run()
MaxPartials == 2
\* most routes mounted before run()
MaxRoutes == 2
\* most modules attached to each of the two module lists before run()
MaxModules == 2
\* no further connection is accepted once a module has counted this many
\* requests
MaxClicks == 2

\* a utility is called on its own result at most this many times
MaxCalls == 2
\* the errors logged are counted up to this many
MaxErrors == 1

\* ------------------------------------------------------------ text tools

DigitChar == <<"0", "1", "2", "3", "4", "5", "6", "7", "8", "9">>

\* format!("{}", n) of a non-negative integer: its decimal digits
RECURSIVE Display(_)
Display(n) ==
  IF n < 10 THEN <<DigitChar[n + 1]>>
  ELSE Display(n \div 10) \o <<DigitChar[(n % 10) + 1]>>

\* [String]::join(sep)
RECURSIVE Join(_, _)
Join(strs, sep) ==
  IF strs = <<>> THEN <<>>
  ELSE IF Len(strs) = 1 THEN strs[1]
  ELSE strs[1] \o sep \o Join(Tail(strs), sep)

\* Option<T>
None == [some |-> FALSE]
Some(v) == [some |-> TRUE, val |-> v]
UnwrapOr(opt, default) == IF opt.some THEN opt.val ELSE default

CRLF == <<"\r", "\n">>
LF == <<"\n">>
SP == <<" ">>
TextGemini == <<"t", "e", "x", "t", "/", "g", "e", "m", "i", "n", "i">>
Utf8 == <<"u", "t", "f", "-", "8">>
En == <<"e", "n">>
CharsetEq == <<";", " ", "c", "h", "a", "r", "s", "e", "t", "=">>
LangEq == <<";", " ", "l", "a", "n", "g", "=">>

\* str::starts_with
StartsWith(s, p) == Len(p) <= Len(s) /\ SubSeq(s, 1, Len(p)) = p

\* str::contains
RECURSIVE Contains(_, _)
Contains(s, p) ==
  IF Len(s) < Len(p) THEN FALSE
  ELSE StartsWith(s, p) \/ Contains(Tail(s), p)

\* str::replace: every non-overlapping occurrence of from, left to right
RECURSIVE Replace(_, _, _)
Replace(s, from, to) ==
  IF Len(s) < Len(from) \/ from = <<>> THEN s
  ELSE IF StartsWith(s, from)
       THEN to \o Replace(SubSeq(s, Len(from) + 1, Len(s)), from, to)
       ELSE <<s[1]>> \o Replace(Tail(s), from, to)

\* ------------------------------------------------- route patterns, paths

Root == <<"/">>

\* the text of s before its first "/" (all of s when it has none)
RECURSIVE UpToSlash(_)
UpToSlash(s) ==
  IF s = <<>> \/ Head(s) = "/" THEN <<>>
  ELSE <<Head(s)>> \o UpToSlash(Tail(s))

\* s.split('/')
RECURSIVE Split(_)
Split(s) ==
  LET first == UpToSlash(s) IN
    IF Len(first) = Len(s) THEN <<s>>
    ELSE <<first>> \o Split(SubSeq(s, Len(first) + 2, Len(s)))

\* the segments of a path or pattern that starts with "/":
\* "/" has the single empty segment, "/a/" has the segments "a" and ""
Segments(path) == Split(Tail(path))

\* the path made of segments
Unsplit(segs) == <<"/">> \o Join(segs, <<"/">>)

\* a pattern segment `:name` binds the parameter `name`
IsParam(seg) == seg # <<>> /\ Head(seg) = ":"
ParamName(seg) == Tail(seg)

\* ASCII lower-casing of one character of the request alphabet
LowerChar(c) ==
  CASE c = "A" -> "a"
    [] c = "B" -> "b"
    [] OTHER -> c

Lower(s) == [i \in 1..Len(s) |-> LowerChar(s[i])]

\* --------------------------------------------------------------- matcher

NotFound == [ok |-> FALSE, value |-> <<>>, params |-> <<>>]

\* insert(pattern, handler) fails: the pattern is mounted already, or it
\* puts a second, differently named parameter where a mounted pattern
\* has one
InsertConflict(table, pattern) ==
  \/ pattern \in table
  \/ \E q \in table :
       LET ps == Segments(pattern)
           qs == Segments(q)
       IN \E i \in 1..Len(ps) :
            /\ i <= Len(qs)
            /\ SubSeq(ps, 1, i - 1) = SubSeq(qs, 1, i - 1)
            /\ IsParam(ps[i]) /\ IsParam(qs[i])
            /\ ps[i] # qs[i]

\* descent of the prefix tree, one segment per step: the literal child is
\* taken when there is one, else the parameter child captures the
\* segment; the choice is never revisited
RECURSIVE Descend(_, _, _, _)
Descend(cands, segs, i, params) ==
  IF i > Len(segs)
  THEN LET term == {p \in cands : Len(Segments(p)) = Len(segs)} IN
         IF term = {} THEN NotFound
         ELSE [ok |-> TRUE, value |-> CHOOSE p \in term : TRUE,
               params |-> params]
  ELSE LET lit == {p \in cands : /\ Len(Segments(p)) >= i
                                 /\ ~IsParam(Segments(p)[i])
                                 /\ Segments(p)[i] = segs[i]}
           par == {p \in cands : /\ Len(Segments(p)) >= i
                                 /\ IsParam(Segments(p)[i])}
       IN IF lit # {} THEN Descend(lit, segs, i + 1, params)
          ELSE IF par # {} /\ segs[i] # <<>>
          THEN LET name == ParamName(Segments(CHOOSE p \in par : TRUE)[i])
               IN Descend(par, segs, i + 1,
                          Append(params, <<name, segs[i]>>))
          ELSE NotFound

\* at(path): the handler (named by its pattern) and the captured
\* parameters, in pattern order; the empty path matches nothing
At(table, path) ==
  IF path = <<>> \/ Head(path) # "/" THEN NotFound
  ELSE Descend(table, Segments(path), 1, <<>>)

\* the request path with a trailing slash removed or added
SlashVariants(path) ==
  IF Len(path) > 1 /\ path[Len(path)] = "/"
  THEN {path, SubSeq(path, 1, Len(path) - 1)}
  ELSE IF path = Root THEN {path}
  ELSE {path, path \o <<"/">>}

\* the case-insensitive descent: as Descend, but a literal child is taken
\* when it agrees with the segment up to letter case, and the segment is
\* replaced by the child's spelling; yields the corrected paths
RECURSIVE FixDescend(_, _, _, _)
FixDescend(cands, segs, i, fixed) ==
  IF i > Len(segs)
  THEN IF \E p \in cands : Len(Segments(p)) = Len(segs)
       THEN {Unsplit(fixed)} ELSE {}
  ELSE LET lit == {p \in cands : /\ Len(Segments(p)) >= i
                                 /\ ~IsParam(Segments(p)[i])
                                 /\ Lower(Segments(p)[i]) = Lower(segs[i])}
           par == {p \in cands : /\ Len(Segments(p)) >= i
                                 /\ IsParam(Segments(p)[i])}
       IN IF lit # {}
          THEN UNION {FixDescend({q \in lit : Segments(q)[i] = Segments(p)[i]},
                                 segs, i + 1, Append(fixed, Segments(p)[i])) :
                        p \in lit}
          ELSE IF par # {} /\ segs[i] # <<>>
          THEN FixDescend(par, segs, i + 1, Append(fixed, segs[i]))
          ELSE {}

\* fix_path(path): the outcomes of the case-insensitive, trailing-slash
\* tolerant lookup; empty when nothing matches under the relaxed rules
FixPath(table, path) ==
  IF path = <<>> \/ Head(path) # "/" THEN {}
  ELSE UNION {FixDescend(table, Segments(v), 1, <<>>) :
                v \in SlashVariants(path)}

\* str::trim_end_matches('/')
RECURSIVE TrimEndMatches(_)
TrimEndMatches(path) ==
  IF path # <<>> /\ path[Len(path)] = "/"
  THEN TrimEndMatches(SubSeq(path, 1, Len(path) - 1))
  ELSE path

\* mutant: one trailing slash is removed, and "/" is a path like any other
NormalizeOneSlash(path) ==
  IF path # <<>> /\ path[Len(path)] = "/"
  THEN SubSeq(path, 1, Len(path) - 1)
  ELSE path

\* utilities::normalize_path_slashes
NormalizePathSlashes(path) ==
  IF path = Root THEN Root
  ELSE IF path # <<>> /\ path[Len(path)] = "/"
  THEN TrimEndMatches(path)
  ELSE path

\* mutant: every name is mapped to the first captured value
ParamsToHashmapFirst(params) ==
  [n \in {params[i][1] : i \in 1..Len(params)} |-> params[1][2]]

\* params_to_hashmap: the captured (name, value) pairs as a map
RECURSIVE ParamsToHashmap(_)
ParamsToHashmap(params) ==
  IF params = <<>> THEN <<>>
  ELSE LET rest == ParamsToHashmap(SubSeq(params, 1, Len(params) - 1))
           last == params[Len(params)]
       IN [n \in (DOMAIN rest) \cup {last[1]} |->
             IF n = last[1] THEN last[2] ELSE rest[n]]

\* ------------------------------------------------------------- responses

\* the status codes of the Gemini protocol (status.rs)
EmittedCodes == {10, 11, 20, 30, 31, 40, 41, 42, 43, 44,
                 50, 51, 52, 53, 59, 60, 61, 62}

\* the statuses a Response carries: the protocol's codes and the internal
\* markers of a binary success, 21 (caller's MIME) and 22 (deduced MIME)
ResponseCodes == EmittedCodes \cup {21, 22}

Response(status, content, mime, character_set, languages) ==
  [status |-> status, content |-> content, mime |-> mime,
   character_set |-> character_set, languages |-> languages]

NoResponse == Response(0, <<>>, None, None, None)

Hi == <<"H", "i">>
Mime == <<"a", "/", "b">>
Latin == <<"l", "1">>
DeFr == << <<"d", "e">>, <<"f", "r">> >>
Koi == <<"k", "8">>
EnJa == << En, <<"j", "a">> >>

\* what a handler may return: every status; for status 20 every
\* combination of MIME, character set and languages set or unset
Responses ==
  {Response(20, c, m, cs, l) :
     c \in {Hi, <<>>}, m \in {None, Some(Mime)},
     cs \in {None, Some(Latin)}, l \in {None, Some(DeFr)}}
  \cup {Response(s, Hi, m, None, None) : s \in {21, 22}, m \in {None, Some(Mime)}}
  \cup {Response(s, Hi, None, None, None) : s \in EmittedCodes \ {20}}

DefaultErrorMessage ==
  <<"T", "h", "i", "s", " ", "c", "a", "p", "s", "u", "l", "e", " ",
    "h", "a", "s", " ", "n", "o", "t", " ",
    "i", "m", "p", "l", "e", "m", "e", "n", "t", "e", "d", " ",
    "a", "n", " ", "e", "r", "r", "o", "r", " ",
    "h", "a", "n", "d", "l", "e", "r", ".", ".", ".">>

\* the handler of the examples' /names/:first/:last route:
\* success(first + " " + last), here with the parameters x and y
EchoResponse(params) ==
  Response(20,
           IF {<<"x">>, <<"y">>} \subseteq DOMAIN params
           THEN params[<<"x">>] \o SP \o params[<<"y">>]
           ELSE <<>>,
           None, None, None)

\* ------------------------------------------------------------ the request
\* String::from_utf8 and Url::parse of the url crate, on the bytes the
\* model's clients send

\* the buffer of handle()
BufferSize == 1024

\* stands for the byte 0xFF, which occurs in no UTF-8 text
xFF == "0xFF"

Letters ==
  {"a", "b", "c", "d", "e", "f", "g", "h", "i", "j", "k", "l", "m",
   "n", "o", "p", "q", "r", "s", "t", "u", "v", "w", "x", "y", "z"}

Digits == {"0", "1", "2", "3", "4", "5", "6", "7", "8", "9"}

\* the index of the first element of s that is in set, 0 when none is
RECURSIVE Find(_, _)
Find(s, set) ==
  IF s = <<>> THEN 0
  ELSE IF Head(s) \in set THEN 1
  ELSE LET k == Find(Tail(s), set) IN IF k = 0 THEN 0 ELSE k + 1

\* String::from_utf8: the text, or the error's Display
FromUtf8(bytes) ==
  LET k == Find(bytes, {xFF}) IN
    IF k = 0 THEN [ok |-> TRUE, val |-> bytes, error |-> <<>>]
    ELSE [ok |-> FALSE, val |-> <<>>,
          error |-> <<"i", "n", "v", "a", "l", "i", "d", " ", "u", "t",
                      "f", "-", "8", " ", "s", "e", "q", "u", "e", "n",
                      "c", "e", " ", "o", "f", " ", "1", " ", "b", "y",
                      "t", "e", "s", " ", "f", "r", "o", "m", " ", "i",
                      "n", "d", "e", "x", " ">>
                      \o Display(k - 1)]

\* str::trim_matches of the spaces around s
RECURSIVE Trim(_)
Trim(s) ==
  IF s = <<>> THEN s
  ELSE IF Head(s) = " " THEN Trim(Tail(s))
  ELSE IF s[Len(s)] = " " THEN Trim(SubSeq(s, 1, Len(s) - 1))
  ELSE s

ParseError(text) == [ok |-> FALSE, path |-> <<>>, error |-> text]

RelativeUrlWithoutBase ==
  <<"r", "e", "l", "a", "t", "i", "v", "e", " ", "U", "R", "L", " ", "w",
    "i", "t", "h", "o", "u", "t", " ", "a", " ", "b", "a", "s", "e">>

InvalidPort == <<"i", "n", "v", "a", "l", "i", "d", " ", "p", "o", "r", "t", " ",
    "n", "u", "m", "b", "e", "r">>

\* Url::parse, as far as url.path() goes: the input without its tabs and
\* newlines and without the spaces around it must begin with a scheme and
\* ":"; after "//" comes the authority, whose port (after its ":") must be
\* digits, and the path is what follows the authority; without "//" the
\* path is the rest
UrlParse(input) ==
  LET text == Trim(SelectSeq(input, LAMBDA ch : ch \notin {"\t", "\r", "\n"}))
      colon == Find(text, {":"})
      scheme == SubSeq(text, 1, colon - 1)
      rest == SubSeq(text, colon + 1, Len(text))
      after == SubSeq(rest, 3, Len(rest))
      slash == Find(after, {"/"})
      authority == IF slash = 0 THEN after ELSE SubSeq(after, 1, slash - 1)
      path == IF slash = 0 THEN <<>> ELSE SubSeq(after, slash, Len(after))
      at == Find(authority, {":"})
      port == SubSeq(authority, at + 1, Len(authority))
  IN IF \/ colon < 2
        \/ scheme[1] \notin Letters
        \/ \E k \in 2..Len(scheme) :
             scheme[k] \notin Letters \cup Digits \cup {"+", "-", "."}
     THEN ParseError(RelativeUrlWithoutBase)
     ELSE IF ~StartsWith(rest, <<"/", "/">>)
     THEN [ok |-> TRUE, path |-> rest, error |-> <<>>]
     ELSE IF at > 0 /\ \E k \in 1..Len(port) : port[k] \notin Digits
     THEN ParseError(InvalidPort)
     ELSE [ok |-> TRUE, path |-> path, error |-> <<>>]

\* "59 The server (Windmark) received a bad request: {}"
BadRequest ==
  <<"5", "9", " ", "T", "h", "e", " ", "s", "e", "r", "v", "e", "r", " ",
    "(", "W", "i", "n", "d", "m", "a", "r", "k", ")", " ", "r", "e", "c",
    "e", "i", "v", "e", "d", " ", "a", " ", "b", "a", "d", " ", "r", "e",
    "q", "u", "e", "s", "t", ":", " ">>

\* what or_error! writes for the error e
OrError(e) == BadRequest \o e

\* ---------------------------------------------------------------- framing

\* mutant: the internal markers are written as they are
WireStatusRaw(status) == status

\* the status written: the internal markers are written as 20
WireStatus(status) ==
  IF status = 21 \/ status = 22 \/ status = 23 THEN 20 ELSE status

\* mutant: the character set of the header line is always utf-8 unless
\* the response sets one
WireMetaFixedCharset(content, character_set, languages) ==
  CASE content.status = 20 ->
         SP \o UnwrapOr(content.mime, TextGemini)
            \o CharsetEq \o UnwrapOr(content.character_set, Utf8)
            \o LangEq
            \o Join(UnwrapOr(content.languages, languages), <<",">>)
    [] content.status = 21 -> UnwrapOr(content.mime, <<>>)
    [] content.status = 22 -> SP \o UnwrapOr(content.mime, <<>>)
    [] OTHER -> SP \o content.content

\* the rest of the header line, after the status
WireMeta(content, character_set, languages) ==
  CASE content.status = 20 ->
         SP \o UnwrapOr(content.mime, TextGemini)
            \o CharsetEq \o UnwrapOr(content.character_set, character_set)
            \o LangEq
            \o Join(UnwrapOr(content.languages, languages), <<",">>)
    [] content.status = 21 -> UnwrapOr(content.mime, <<>>)
    [] content.status = 22 -> SP \o UnwrapOr(content.mime, <<>>)
    [] OTHER -> SP \o content.content

\* mutant: the body is written for every status
WireBodyEveryStatus(content, header, footer) ==
  header \o content.content \o LF \o footer

\* what follows the header line
WireBody(content, header, footer) ==
  CASE content.status = 20 -> header \o content.content \o LF \o footer
    [] content.status \in {21, 22} -> content.content
    [] OTHER -> <<>>

\* format!("{}{}\r\n{}", status, meta, body)
Frame(content, header, footer, character_set, languages) ==
  Display(WireStatus(content.status))
    \o WireMeta(content, character_set, languages)
    \o CRLF
    \o WireBody(content, header, footer)

\* ------------------------------------------------------------------ state

VARIABLES
  routes,          \* the mounted patterns; a pattern names its handler
  error_handler,   \* "default" or "user" (set_error_handler was called)
  headers,         \* the header partials, each by the text it produces
  footers,         \* the footer partials, each by the text it produces
  fix_path,        \* the fix_path option
  character_set,   \* the server's character set
  languages,       \* the server's languages
  running,         \* run() has been called
  panicked,        \* a configuration call has panicked
  async_modules,   \* the attached async modules, each by its state
  modules,         \* the attached sync modules, each by its state
  post_route_callback, \* "default" or "replace" (examples/callbacks.rs)
  locks,           \* who holds the lock of each module list
  error_count,     \* the counter of the error handler's closure
  poisoned,        \* the std mutexes a panic has poisoned
  private_key_file_name, \* "" until set_private_key_file names a file
  ca_file_name,    \* "" until set_certificate_file names a file
  ssl_acceptor,    \* who built the acceptor: "default", "caller", "files"
  environment,     \* the host: which files can be read, whether the key
                   \* matches the certificate, whether the port is free
  listener,        \* "none" or "bound": the TcpListener of run()
  result,          \* "none" or what run() has returned
  errors,          \* the errors that the accept loop has logged
  clone,           \* the fields that a clone of the Router owns
  call,            \* a call of a utility: its argument and what it returned
  conn             \* per connection: the locals of Router::handle

vars == <<routes, error_handler, headers, footers, fix_path, character_set,
          languages, running, panicked, async_modules, modules,
          post_route_callback, locks, error_count, poisoned,
          private_key_file_name, ca_file_name, ssl_acceptor, environment,
          listener, result, errors, clone, call, conn>>

config == <<routes, error_handler, headers, footers, fix_path,
            character_set, languages>>

hooks == <<async_modules, modules, post_route_callback, locks, error_count,
           poisoned>>

acceptor == <<private_key_file_name, ca_file_name, ssl_acceptor>>

server == <<acceptor, environment, listener, result, errors, clone, call>>

Conns == {"c1"}

\* the two connections of the concurrent environment
Tasks == {"c1", "c2"}

\* the locks of the module lists: Arc<AsyncMutex<Vec<..>>> and
\* Arc<Mutex<Vec<..>>>
Locks == {"async_modules", "modules"}

\* the locals of handle() before the request is read; besides them
\* sent: the bytes the client has written, input: those of them not yet
\* read, handshake: how stream.accept() ended, after: the errors logged
\* before this connection was accepted, read: "Err" once stream.read()
\* has returned an error, path: the path of the URL, at
\* first that of gemini://fuwn.me/, i: the modules of the current loop
\* already invoked, returned: the response as the handler returned it,
\* log: the invocations made for this connection, in their order,
\* guards: the MutexGuards alive, loaded: the value of the error handler's
\* counter as its closure read it, panic: "none", or what has panicked
FreshConn ==
  [pc |-> "idle", handshake |-> "none", after |-> 0, read |-> "none",
   sent |-> <<>>, input |-> <<>>,
   path |-> Root, fixed_path |-> <<>>, route |-> NotFound,
   hook_parameters |-> None, route_params |-> <<>>, footers_length |-> 0,
   header |-> <<>>, footer |-> <<>>, i |-> 0, content |-> NoResponse,
   returned |-> NoResponse, handled |-> "none", wire |-> <<>>,
   log |-> <<>>, guards |-> {}, loaded |-> 0, panic |-> "none"]

\* the names of the key and certificate files of the examples
PrivateKeyFile == "windmark_private.pem"
CertificateFile == "windmark_public.pem"

\* a host on which both files are in place and the port is free
Host == [private_key |-> TRUE, certificate |-> TRUE, matches |-> TRUE,
         port |-> TRUE]

\* every host: each file readable or not, the key matching the
\* certificate or not, the port free or not
Hosts == [private_key : BOOLEAN, certificate : BOOLEAN, matches : BOOLEAN,
          port : BOOLEAN]

\* Router::default() apart from the two file names, with the
\* connections cs still to come
Default(cs) ==
  /\ routes = {}
  /\ error_handler = "default"
  /\ headers = <<>>
  /\ footers = <<>>
  /\ fix_path = FALSE
  /\ character_set = Utf8
  /\ languages = <<En>>
  /\ running = FALSE
  /\ panicked = FALSE
  /\ async_modules = <<>>
  /\ modules = <<>>
  /\ post_route_callback = "default"
  /\ locks = [l \in Locks |-> "free"]
  /\ error_count = 0
  /\ poisoned = {}
  /\ ssl_acceptor = "default"
  /\ listener = "none"
  /\ result = "none"
  /\ errors = 0
  /\ clone = None
  /\ conn = [c \in cs |-> FreshConn]

\* Router::new() with set_private_key_file and set_certificate_file
\* called, as in every example, on a host that has the files
Setup(cs) ==
  /\ Default(cs)
  /\ private_key_file_name = PrivateKeyFile
  /\ ca_file_name = CertificateFile
  /\ environment = Host
  /\ call = None

Init == Setup(Conns)

Configuring == ~running /\ ~panicked /\ result = "none"

\* ---------------------------------------------------------- configuration

\* mutant: the result of insert(...) is dropped and the pattern is mounted
MountUnchecked(pattern) ==
  /\ Configuring
  /\ Cardinality(routes) < MaxRoutes
  /\ routes' = routes \cup {pattern}
  /\ UNCHANGED <<error_handler, headers, footers, fix_path, character_set,
                 languages, running, server, panicked, conn, hooks>>

\* mount(route, handler): insert(...).unwrap()
Mount(pattern) ==
  /\ Configuring
  /\ IF InsertConflict(routes, pattern)
     THEN /\ panicked' = TRUE
          /\ UNCHANGED routes
     ELSE /\ Cardinality(routes) < MaxRoutes
          /\ routes' = routes \cup {pattern}
          /\ UNCHANGED panicked
  /\ UNCHANGED <<error_handler, headers, footers, fix_path, character_set,
                 languages, running, server, conn, hooks>>

SetErrorHandler ==
  /\ Configuring
  /\ error_handler' = "user"
  /\ UNCHANGED <<routes, headers, footers, fix_path, character_set,
                 languages, running, server, panicked, conn, hooks>>

\* the text the k-th header / footer partial produces
HeaderText(k) == <<"H", DigitChar[k + 1]>>
FooterText(k) == <<"F", DigitChar[k + 1]>>

AddHeader ==
  /\ Configuring
  /\ Len(headers) < MaxPartials
  /\ headers' = Append(headers, HeaderText(Len(headers) + 1))
  /\ UNCHANGED <<routes, error_handler, footers, fix_path, character_set,
                 languages, running, server, panicked, conn, hooks>>

AddFooter ==
  /\ Configuring
  /\ Len(footers) < MaxPartials
  /\ footers' = Append(footers, FooterText(Len(footers) + 1))
  /\ UNCHANGED <<routes, error_handler, headers, fix_path, character_set,
                 languages, running, server, panicked, conn, hooks>>

SetFixPath(b) ==
  /\ Configuring
  /\ fix_path' = b
  /\ UNCHANGED <<routes, error_handler, headers, footers, character_set,
                 languages, running, server, panicked, conn, hooks>>

SetCharacterSet(cs) ==
  /\ Configuring
  /\ character_set' = cs
  /\ UNCHANGED <<routes, error_handler, headers, footers, fix_path,
                 languages, running, server, panicked, conn, hooks>>

SetLanguages(l) ==
  /\ Configuring
  /\ languages' = l
  /\ UNCHANGED <<routes, error_handler, headers, footers, fix_path,
                 character_set, running, server, panicked, conn, hooks>>

\* Clicker::default() of examples/stateful_module.rs and
\* examples/async_stateful_module.rs
Clicker == [clicks |-> 0]

\* attach_async(module): on_attach, then the module is pushed
AttachAsync ==
  /\ Configuring
  /\ Len(async_modules) < MaxModules
  /\ async_modules' = Append(async_modules, Clicker)
  /\ UNCHANGED <<config, modules, post_route_callback, locks, error_count,
                 poisoned, running, server, panicked, conn>>

\* attach(module): on_attach, then the module is pushed
Attach ==
  /\ Configuring
  /\ Len(modules) < MaxModules
  /\ modules' = Append(modules, Clicker)
  /\ UNCHANGED <<config, async_modules, post_route_callback, locks,
                 error_count, poisoned, running, server, panicked, conn>>

\* set_post_route_callback with the callback of examples/callbacks.rs
SetPostRouteCallback ==
  /\ Configuring
  /\ post_route_callback' = "replace"
  /\ UNCHANGED <<config, async_modules, modules, locks, error_count, poisoned,
                 running, server, panicked, conn>>

SetPrivateKeyFile ==
  /\ Configuring
  /\ private_key_file_name' = PrivateKeyFile
  /\ UNCHANGED <<config, hooks, running, panicked, ca_file_name, ssl_acceptor,
                 environment, listener, result, errors, clone, call, conn>>

SetCertificateFile ==
  /\ Configuring
  /\ ca_file_name' = CertificateFile
  /\ UNCHANGED <<config, hooks, running, panicked, private_key_file_name,
                 ssl_acceptor, environment, listener, result, errors, clone,
                 call, conn>>

\* set_ssl_acceptor(a), a built by the caller
SetSslAcceptor ==
  /\ Configuring
  /\ ssl_acceptor' = "caller"
  /\ UNCHANGED <<config, hooks, running, panicked, private_key_file_name,
                 ca_file_name, environment, listener, result, errors, clone,
                 call, conn>>

\* mutant: the key is not checked against the certificate
CreateAcceptorUnchecked(key, ca, host) ==
  IF key # "" /\ host.private_key /\ ca # "" /\ host.certificate
  THEN "Ok" ELSE "Err"

\* create_acceptor(): set_private_key_file(..)?, set_certificate_file(..)?
\* and check_private_key()? on a new builder; no file has the name ""
CreateAcceptor(key, ca, host) ==
  IF /\ key # "" /\ host.private_key
     /\ ca # "" /\ host.certificate
     /\ host.matches
  THEN "Ok" ELSE "Err"

\* run() up to the accept loop: create_acceptor()?, which replaces
\* ssl_acceptor, then TcpListener::bind(..)?; from there on the
\* configuration is only read
Run ==
  /\ Configuring
  /\ IF CreateAcceptor(private_key_file_name, ca_file_name, environment)
          = "Err"
     THEN /\ result' = "Err"
          /\ UNCHANGED <<ssl_acceptor, listener, running>>
     ELSE /\ ssl_acceptor' = "files"
          /\ IF environment.port
             THEN /\ listener' = "bound"
                  /\ running' = TRUE
                  /\ UNCHANGED result
             ELSE /\ result' = "Err"
                  /\ UNCHANGED <<listener, running>>
  /\ UNCHANGED <<config, hooks, panicked, private_key_file_name,
                 ca_file_name, environment, errors, clone, call, conn>>

\* ------------------------------------------------------------- clones
\* #[derive(Clone)]: a clone gets a copy of the route table (a
\* matchit::Router, held by value) and a new reference to each Arc: to
\* the error handler, the callbacks, the partial lists and the module
\* lists.  `clone` holds what the second Router value owns once a call
\* has given it something of its own, and calls: the methods called
\* through it.

CloneOf(table, handler, callback) ==
  Some([routes |-> table, error_handler |-> handler,
        post_route_callback |-> callback, calls |-> {}])

Cloning == Configuring /\ clone.some

Called(method) == [clone EXCEPT !.val.calls = @ \cup {method}]

CloneUnchanged ==
  UNCHANGED <<running, panicked, acceptor, environment, listener, result,
              errors, call, conn>>

\* router.clone()
Clone ==
  /\ Configuring
  /\ ~clone.some
  /\ clone' = CloneOf(routes, error_handler, post_route_callback)
  /\ UNCHANGED <<config, hooks>>
  /\ CloneUnchanged

\* mount(route, handler) through the clone: the insert is into the
\* clone's own table
CloneMount(pattern) ==
  /\ Cloning
  /\ IF InsertConflict(clone.val.routes, pattern)
     THEN /\ panicked' = TRUE
          /\ UNCHANGED clone
     ELSE /\ Cardinality(clone.val.routes) < MaxRoutes
          /\ clone' = [Called("mount") EXCEPT !.val.routes = @ \cup {pattern}]
          /\ UNCHANGED panicked
  /\ UNCHANGED <<config, hooks, running, acceptor, environment, listener,
                 result, errors, call, conn>>

\* set_error_handler through the clone: self.error_handler = Arc::new(..)
CloneSetErrorHandler ==
  /\ Cloning
  /\ clone' = [Called("set_error_handler") EXCEPT !.val.error_handler = "user"]
  /\ UNCHANGED <<config, hooks>>
  /\ CloneUnchanged

\* set_post_route_callback through the clone:
\* self.post_route_callback = Arc::new(..)
CloneSetPostRouteCallback ==
  /\ Cloning
  /\ clone' = [Called("set_post_route_callback")
                 EXCEPT !.val.post_route_callback = "replace"]
  /\ UNCHANGED <<config, hooks>>
  /\ CloneUnchanged

\* add_header through the clone: a push onto the list behind the Arc
CloneAddHeader ==
  /\ Cloning
  /\ Len(headers) < MaxPartials
  /\ headers' = Append(headers, HeaderText(Len(headers) + 1))
  /\ clone' = Called("add_header")
  /\ UNCHANGED <<routes, error_handler, footers, fix_path, character_set,
                 languages, hooks>>
  /\ CloneUnchanged

\* attach(module) through the clone: a push onto the list behind the Arc
CloneAttach ==
  /\ Cloning
  /\ Len(modules) < MaxModules
  /\ modules' = Append(modules, Clicker)
  /\ clone' = Called("attach")
  /\ UNCHANGED <<config, async_modules, post_route_callback, locks,
                 error_count, poisoned>>
  /\ CloneUnchanged

\* ----------------------------------------------------------- utilities

\* normalize_path_slashes is called, the first time on the argument and
\* then on what it has returned
NormalizePathSlashesCall ==
  /\ call.some
  /\ Len(call.val.returned) < MaxCalls
  /\ call' = [call EXCEPT !.val.returned =
                Append(@, NormalizePathSlashes(
                            IF @ = <<>> THEN call.val.path ELSE @[Len(@)]))]
  /\ UNCHANGED <<config, hooks, running, panicked, acceptor, environment,
                 listener, result, errors, clone, conn>>

\* ------------------------------------------------------- Router::handle

Goto(c, pc) == conn' = [conn EXCEPT ![c].pc = pc]

\* an entry of a connection's log: a hook (on_pre_route, on_post_route)
\* of the index-th module of a list, or a call of the index-th partial
\* of a list, of a callback or of a handler (index 0)
Event(name, of, index) == [event |-> name, of |-> of, index |-> index]

Calls(of, n) == [k \in 1..n |-> Event("call", of, k)]

Serving(c, pc) == running /\ conn[c].pc = pc

\* listener.accept() and the spawned task up to the call of handle(),
\* with a handshake that succeeds
Accept(c) ==
  /\ Serving(c, "idle")
  /\ \A k \in 1..Len(async_modules) : async_modules[k].clicks < MaxClicks
  /\ \A k \in 1..Len(modules) : modules[k].clicks < MaxClicks
  /\ conn' = [conn EXCEPT ![c].pc = "read", ![c].handshake = "Ok",
                          ![c].after = errors]
  /\ UNCHANGED <<config, hooks, running, server, panicked>>

\* the read loop for a request line `gemini://<host><path>` CRLF that
\* arrives in one read: it is parsed as a URL, of which the dispatcher
\* uses the path
ReadRequest(c, path) ==
  /\ Serving(c, "read")
  /\ conn[c].handshake = "Ok"
  /\ conn[c].sent = <<>>
  /\ conn' = [conn EXCEPT ![c].pc = "lookup", ![c].path = path]
  /\ UNCHANGED <<config, hooks, running, server, panicked>>

\* the client writes the bytes of its request
Send(c, bytes) ==
  /\ Serving(c, "read")
  /\ conn[c].sent = <<>>
  /\ conn' = [conn EXCEPT ![c].sent = bytes, ![c].input = bytes]
  /\ UNCHANGED <<config, hooks, running, server, panicked>>

\* one turn of the read loop, for a read that returns size bytes: the
\* bytes read are decoded and, without their CRLFs, parsed as the URL;
\* or_error! answers a failure and returns; the loop ends when the bytes
\* read contain a CRLF
Read(c, size) ==
  /\ Serving(c, "read")
  /\ conn[c].handshake = "Ok"
  /\ size \in 1..Len(conn[c].input)
  /\ size <= BufferSize
  /\ LET request == FromUtf8(SubSeq(conn[c].input, 1, size))
         url == UrlParse(Replace(request.val, CRLF, <<>>))
         rest == SubSeq(conn[c].input, size + 1, Len(conn[c].input))
     IN conn' =
          IF ~request.ok
          THEN [conn EXCEPT ![c].pc = "returned", ![c].input = rest,
                            ![c].wire = OrError(request.error)]
          ELSE IF ~url.ok
          THEN [conn EXCEPT ![c].pc = "returned", ![c].input = rest,
                            ![c].wire = OrError(url.error)]
          ELSE [conn EXCEPT ![c].pc = IF Contains(request.val, CRLF)
                                      THEN "lookup" ELSE "read",
                            ![c].input = rest,
                            ![c].path = url.path]
  /\ UNCHANGED <<config, hooks, running, server, panicked>>

\* handle() has returned after or_error!: the task ends and the stream
\* is dropped
Return(c) ==
  /\ Serving(c, "returned")
  /\ conn' = [conn EXCEPT ![c] = FreshConn]
  /\ UNCHANGED <<config, hooks, running, server, panicked>>

\* mutant: the fix_path option is ignored
FixedPathRaw(table, fix, path) == {path}

\* the values fixed_path may take: with fix_path the matcher's corrected
\* path for the request path (for "/" when it is empty), or the request
\* path when there is none; without fix_path the request path
FixedPath(table, fix, path) ==
  IF fix
  THEN LET fixed == FixPath(table, IF path = <<>> THEN Root ELSE path)
       IN IF fixed = {} THEN {path} ELSE fixed
  ELSE {path}

\* the parameters the hook context carries: those of the route, if any
HookParameters(route) ==
  IF route.ok THEN Some(ParamsToHashmap(route.params)) ELSE None

\* fixed_path, routes.at(&fixed_path) and HookContext::new
Lookup(c) ==
  /\ Serving(c, "lookup")
  /\ \E fixed \in FixedPath(routes, fix_path, conn[c].path) :
       LET route == At(routes, fixed) IN
         conn' = [conn EXCEPT ![c].pc = "pre_route_async",
                              ![c].fixed_path = fixed,
                              ![c].route = route,
                              ![c].hook_parameters = HookParameters(route)]
  /\ UNCHANGED <<config, hooks, running, server, panicked>>

\* mutant: the hook does not count
OnPreRouteIdle(module) == module

\* Clicker::on_pre_route
OnPreRoute(module) == [module EXCEPT !.clicks = @ + 1]

\* Clicker::on_post_route
OnPostRoute(module) == module

\* lock(): connection c gets the lock l when no other connection holds it
CanLock(c, l) == locks[l] \in {"free", c}

\* mutant: a loop over a module list goes through it from its end
NextModuleReversed(list, i) == Len(list) - i

\* the module a loop over a module list invokes after i of them
NextModule(list, i) == i + 1

\* mutant: the lock of a module list is never dropped
LoopLockKept(c, l, n, i) == [locks EXCEPT ![l] = c]

\* the lock of a module list of n modules once connection c has invoked
\* i of them: dropped at the end of the loop
LoopLock(c, l, n, i) == [locks EXCEPT ![l] = IF i < n THEN c ELSE "free"]

\* the locals of connection c once it has invoked hook name of the k-th
\* of the n modules of list l, the i-th it invokes: the loop goes on, or
\* handle() goes on at next
LoopConn(c, name, l, n, k, i, next) ==
  [conn EXCEPT ![c].pc = IF i < n THEN @ ELSE next,
               ![c].i = IF i < n THEN i ELSE 0,
               ![c].log = IF n = 0 THEN @ ELSE Append(@, Event(name, l, k))]

\* one turn of the loop over the async modules, which holds the list's
\* lock from its first turn to its last: on_pre_route of the next module
PreRouteAsyncModules(c) ==
  /\ Serving(c, "pre_route_async")
  /\ CanLock(c, "async_modules")
  /\ LET n == Len(async_modules)
         k == NextModule(async_modules, conn[c].i)
     IN /\ async_modules' =
             IF n = 0 THEN async_modules
             ELSE [async_modules EXCEPT ![k] = OnPreRoute(@)]
        /\ locks' = LoopLock(c, "async_modules", n, conn[c].i + 1)
        /\ conn' = LoopConn(c, "on_pre_route", "async_modules", n, k,
                            conn[c].i + 1, "pre_route_sync")
  /\ UNCHANGED <<config, modules, post_route_callback, error_count, poisoned,
                 running, server, panicked>>

\* one turn of the loop over the sync modules, which holds the list's
\* lock from its first turn to its last: on_pre_route of the next module
PreRouteModules(c) ==
  /\ Serving(c, "pre_route_sync")
  /\ CanLock(c, "modules")
  /\ LET n == Len(modules)
         k == NextModule(modules, conn[c].i)
     IN /\ modules' =
             IF n = 0 THEN modules
             ELSE [modules EXCEPT ![k] = OnPreRoute(@)]
        /\ locks' = LoopLock(c, "modules", n, conn[c].i + 1)
        /\ conn' = LoopConn(c, "on_pre_route", "modules", n, k,
                            conn[c].i + 1, "pre_route_callback")
  /\ UNCHANGED <<config, async_modules, post_route_callback, error_count,
                 poisoned, running, server, panicked>>

\* mutant: the matched branch is taken for every request
BranchMatched(route) == "footers_length"

\* if let Ok(ref route) = route: the matched branch or the error branch
Branch(route) == IF route.ok THEN "footers_length" ELSE "error_handler"

\* the pre-route callback; then the matched branch or the error branch
PreRouteCallback(c) ==
  /\ Serving(c, "pre_route_callback")
  /\ conn' = [conn EXCEPT
               ![c].pc = Branch(conn[c].route),
               ![c].log = Append(@, Event("call", "pre_route_callback", 0))]
  /\ UNCHANGED <<config, hooks, running, server, panicked>>

\* mutant: the handler's context is built without the parameters
RouteContextParamsEmpty(route) == <<>>

\* RouteContext::new: the handler's context carries the parameters of the
\* matched route as a map
RouteContextParams(route) == ParamsToHashmap(route.params)

\* footers_length and RouteContext::new
FootersLength(c) ==
  /\ Serving(c, "footers_length")
  /\ conn' = [conn EXCEPT ![c].pc = "headers",
                          ![c].footers_length = Len(footers),
                          ![c].route_params =
                             RouteContextParams(conn[c].route)]
  /\ UNCHANGED <<config, hooks, running, server, panicked>>

\* header: every partial's text followed by a newline
RECURSIVE HeaderComposite(_)
HeaderComposite(texts) ==
  IF texts = <<>> THEN <<>>
  ELSE texts[1] \o LF \o HeaderComposite(Tail(texts))

\* mutant: a newline follows every footer text
RECURSIVE FooterCompositeTrailing(_, _, _)
FooterCompositeTrailing(texts, i, footers_length) ==
  IF texts = <<>> THEN <<>>
  ELSE texts[1] \o LF
         \o FooterCompositeTrailing(Tail(texts), i + 1, footers_length)

\* footer: the texts from the i-th (0-based) on; a newline follows a text
\* when footers_length > 1 and it is not the one at footers_length - 1
RECURSIVE FooterComposite(_, _, _)
FooterComposite(texts, i, footers_length) ==
  IF texts = <<>> THEN <<>>
  ELSE texts[1]
         \o (IF footers_length > 1 /\ i # footers_length - 1
             THEN LF ELSE <<>>)
         \o FooterComposite(Tail(texts), i + 1, footers_length)

Headers(c) ==
  /\ Serving(c, "headers")
  /\ conn' = [conn EXCEPT ![c].pc = "footers",
                          ![c].header = HeaderComposite(headers),
                          ![c].log = @ \o Calls("headers", Len(headers))]
  /\ UNCHANGED <<config, hooks, running, server, panicked>>

Footers(c) ==
  /\ Serving(c, "footers")
  /\ conn' = [conn EXCEPT ![c].pc = "route_handler",
                          ![c].footer =
                             FooterComposite(footers, 0,
                                             conn[c].footers_length),
                          ![c].log = @ \o Calls("footers", Len(footers))]
  /\ UNCHANGED <<config, hooks, running, server, panicked>>

\* the matched route's handler, called under its lock and awaited
RouteHandler(c, response) ==
  /\ Serving(c, "route_handler")
  /\ conn' = [conn EXCEPT ![c].pc = "post_route_async",
                          ![c].content = response,
                          ![c].returned = response,
                          ![c].handled = "route",
                          ![c].log = Append(@, Event("call", "route", 0))]
  /\ UNCHANGED <<config, hooks, running, server, panicked>>

\* what the error handler may return: the default one its fixed reply
ErrorResponses(handler, user_responses) ==
  IF handler = "default"
  THEN {Response(51, DefaultErrorMessage, None, None, None)}
  ELSE user_responses

\* the error handler, called under its lock and awaited
ErrorHandler(c, response) ==
  /\ Serving(c, "error_handler")
  /\ conn' = [conn EXCEPT ![c].pc = "post_route_async",
                          ![c].content = response,
                          ![c].returned = response,
                          ![c].handled = "error",
                          ![c].log =
                             Append(@, Event("call", "error_handler", 0))]
  /\ UNCHANGED <<config, hooks, running, server, panicked>>

\* one turn of the loop over the async modules: on_post_route of the
\* next module
PostRouteAsyncModules(c) ==
  /\ Serving(c, "post_route_async")
  /\ CanLock(c, "async_modules")
  /\ LET n == Len(async_modules)
         k == NextModule(async_modules, conn[c].i)
     IN /\ async_modules' =
             IF n = 0 THEN async_modules
             ELSE [async_modules EXCEPT ![k] = OnPostRoute(@)]
        /\ locks' = LoopLock(c, "async_modules", n, conn[c].i + 1)
        /\ conn' = LoopConn(c, "on_post_route", "async_modules", n, k,
                            conn[c].i + 1, "post_route_sync")
  /\ UNCHANGED <<config, modules, post_route_callback, error_count, poisoned,
                 running, server, panicked>>

\* one turn of the loop over the sync modules: on_post_route of the next
\* module
PostRouteModules(c) ==
  /\ Serving(c, "post_route_sync")
  /\ CanLock(c, "modules")
  /\ LET n == Len(modules)
         k == NextModule(modules, conn[c].i)
     IN /\ modules' =
             IF n = 0 THEN modules
             ELSE [modules EXCEPT ![k] = OnPostRoute(@)]
        /\ locks' = LoopLock(c, "modules", n, conn[c].i + 1)
        /\ conn' = LoopConn(c, "on_post_route", "modules", n, k,
                            conn[c].i + 1, "post_route_callback")
  /\ UNCHANGED <<config, async_modules, post_route_callback, error_count,
                 poisoned, running, server, panicked>>

Hello == <<"H", "e", "l", "l", "o">>

\* mutant: the callback's change is made on a copy of the response
PostRouteHookCopy(callback, content) == content

\* the post-route callback on the response: the default one leaves it
\* alone, the one of examples/callbacks.rs replaces "Hello" by "Hi"
PostRouteHook(callback, content) ==
  IF callback = "replace"
  THEN [content EXCEPT !.content = Replace(@, Hello, Hi)]
  ELSE content

\* the post-route callback, called with &mut content
PostRouteCallback(c) ==
  /\ Serving(c, "post_route_callback")
  /\ conn' = [conn EXCEPT
               ![c].pc = "write",
               ![c].content = PostRouteHook(post_route_callback, @),
               ![c].log = Append(@, Event("call", "post_route_callback", 0))]
  /\ UNCHANGED <<config, hooks, running, server, panicked>>

\* stream.write_all(format!(...)) on a stream whose handshake succeeded
Write(c) ==
  /\ Serving(c, "write")
  /\ conn[c].handshake = "Ok"
  /\ conn' = [conn EXCEPT ![c].pc = "shutdown",
                          ![c].wire =
                             Frame(conn[c].content, conn[c].header,
                                   conn[c].footer, character_set,
                                   languages),
                          ![c].log = Append(@, Event("write", "stream", 0))]
  /\ UNCHANGED <<config, hooks, running, server, panicked>>

\* stream.shutdown(); the task ends and its locals are dropped
Shutdown(c) ==
  /\ Serving(c, "shutdown")
  /\ conn' = [conn EXCEPT ![c] = FreshConn]
  /\ UNCHANGED <<config, hooks, running, server, panicked>>

\* the count of the errors logged, after one more
Logged == IF errors < MaxErrors THEN errors + 1 ELSE errors

\* mutant: an error of listener.accept() is returned from run()
AcceptErrorReturns ==
  /\ running
  /\ running' = FALSE
  /\ listener' = "none"
  /\ result' = "Err"
  /\ UNCHANGED <<config, hooks, panicked, acceptor, environment, errors, clone,
                 call, conn>>

\* listener.accept() returns an error: it is logged and the loop goes on
AcceptError ==
  /\ running
  /\ errors' = Logged
  /\ UNCHANGED <<config, hooks, running, panicked, acceptor, environment,
                 listener, result, clone, call, conn>>

\* listener.accept() and the spawned task up to the call of handle(),
\* with a handshake that fails: the error of stream.accept() is printed
\* and handle() is called
HandshakeError(c) ==
  /\ Serving(c, "idle")
  /\ \A k \in 1..Len(async_modules) : async_modules[k].clicks < MaxClicks
  /\ \A k \in 1..Len(modules) : modules[k].clicks < MaxClicks
  /\ conn' = [conn EXCEPT ![c].pc = "read",
                          ![c].handshake = "Err",
                          ![c].after = errors]
  /\ errors' = Logged
  /\ UNCHANGED <<config, hooks, running, panicked, acceptor, environment,
                 listener, result, clone, call>>

\* stream.read() returns an error: `while let Ok(size)` ends the read
\* loop and handle() goes on with the URL it has
ReadError(c) ==
  /\ Serving(c, "read")
  /\ conn' = [conn EXCEPT ![c].pc = "lookup", ![c].read = "Err"]
  /\ UNCHANGED <<config, hooks, running, server, panicked>>

\* stream.write_all(..) returns an error: `?` returns it from handle(),
\* the task logs it and ends
WriteError(c) ==
  /\ Serving(c, "write")
  /\ conn' = [conn EXCEPT ![c] = FreshConn]
  /\ errors' = Logged
  /\ UNCHANGED <<config, hooks, running, panicked, acceptor, environment,
                 listener, result, clone, call>>

\* stream.shutdown() returns an error: `?` returns it from handle(), the
\* task logs it and ends
ShutdownError(c) ==
  /\ Serving(c, "shutdown")
  /\ conn' = [conn EXCEPT ![c] = FreshConn]
  /\ errors' = Logged
  /\ UNCHANGED <<config, hooks, running, panicked, acceptor, environment,
                 listener, result, clone, call>>

\* the steps of handle() that take no input
Step(c) ==
  \/ Accept(c)
  \/ Lookup(c)
  \/ PreRouteAsyncModules(c)
  \/ PreRouteModules(c)
  \/ PreRouteCallback(c)
  \/ FootersLength(c)
  \/ Headers(c)
  \/ Footers(c)
  \/ PostRouteAsyncModules(c)
  \/ PostRouteModules(c)
  \/ PostRouteCallback(c)
  \/ Write(c)
  \/ Shutdown(c)

\* ------------------------------------------------ the locks of handle()
\* A step above stands for a statement of handle() together with the
\* lock() it begins with and the drop of its guard. Here the statements
\* are taken apart: lock(), the call made under the guard, and the drop
\* of the guard at the end of the statement or block.

\* a lock that handle() takes with lock(): the one of a field of the
\* Router, or the one of the handler mounted at the pattern `of`
Guard(lock, of) == [lock |-> lock, of |-> of]

\* the fields behind a std::sync::Mutex, which a panic under its guard
\* poisons; the route handlers, the error handler and the async modules
\* are behind an async mutex, which is not poisoned
StdMutexes ==
  {"modules", "pre_route_callback", "headers", "footers",
   "post_route_callback"}

\* the locks that the statement at the position of a connection takes
Section(local) ==
  CASE local.pc = "pre_route_callback" -> {Guard("pre_route_callback", <<>>)}
    [] local.pc = "footers_length" -> {Guard("footers", <<>>)}
    [] local.pc = "headers" -> {Guard("headers", <<>>)}
    [] local.pc = "footers" -> {Guard("footers", <<>>)}
    [] local.pc \in {"route_handler", "route_future"}
         -> {Guard("route", local.route.value)}
    [] local.pc \in {"error_handler", "error_future"}
         -> {Guard("error_handler", <<>>)}
    [] local.pc = "post_route_callback"
         -> {Guard("post_route_callback", <<>>)}
    [] OTHER -> {}

\* mutant: lock() does not wait
FreeAlways(g) == TRUE

\* no connection has a guard of the lock g
Free(g) == \A d \in DOMAIN conn : g \notin conn[d].guards

\* mutant: a guard lives on after its statement
UnlockedAlways(c) == TRUE

\* the guards of the statements before have been dropped
Unlocked(c) == conn[c].guards = {}

\* connection c has the guard of the statement it is at
Locked(c) ==
  /\ Section(conn[c]) # {}
  /\ Section(conn[c]) \subseteq conn[c].guards

\* lock() at the beginning of a statement: it waits until the lock is
\* free; lock().unwrap() of a poisoned std mutex panics
Lock(c) ==
  /\ running
  /\ Unlocked(c)
  /\ ~Locked(c)
  /\ \E g \in Section(conn[c]) :
       IF g.lock \in poisoned
       THEN conn' = [conn EXCEPT ![c].pc = "panicked", ![c].panic = "lock"]
       ELSE /\ Free(g)
            /\ conn' = [conn EXCEPT ![c].guards = @ \cup {g}]
  /\ UNCHANGED <<config, hooks, running, server, panicked>>

\* the end of a statement: its guard is dropped
Drop(c) ==
  /\ running
  /\ conn[c].pc # "panicked"
  /\ conn[c].guards \ Section(conn[c]) # {}
  /\ conn' = [conn EXCEPT ![c].guards = @ \cap Section(conn[c])]
  /\ UNCHANGED <<config, hooks, running, server, panicked>>

\* lock.call(route_context): the handler returns its future
RouteCall(c) ==
  /\ Serving(c, "route_handler")
  /\ conn' = [conn EXCEPT ![c].pc = "route_future",
                          ![c].log = Append(@, Event("call", "route", 0))]
  /\ UNCHANGED <<config, hooks, running, server, panicked>>

\* handler.await: the future completes with the response
RouteAwait(c, response) ==
  /\ Serving(c, "route_future")
  /\ conn' = [conn EXCEPT ![c].pc = "post_route_async",
                          ![c].content = response,
                          ![c].returned = response,
                          ![c].handled = "route"]
  /\ UNCHANGED <<config, hooks, running, server, panicked>>

\* the error handler of examples/error_handler.rs is called: of
\* error_count += 1, the load
ErrorCall(c) ==
  /\ Serving(c, "error_handler")
  /\ conn' = [conn EXCEPT
               ![c].pc = "error_future",
               ![c].loaded = error_count,
               ![c].log = Append(@, Event("call", "error_handler", 0))]
  /\ UNCHANGED <<config, hooks, running, server, panicked>>

\* the store of error_count += 1, and the future of the error handler
\* completes with the response
ErrorAwait(c, response) ==
  /\ Serving(c, "error_future")
  /\ error_count' = IF error_handler = "user" THEN conn[c].loaded + 1
                     ELSE error_count
  /\ conn' = [conn EXCEPT ![c].pc = "post_route_async",
                          ![c].content = response,
                          ![c].returned = response,
                          ![c].handled = "error"]
  /\ UNCHANGED <<config, async_modules, modules, post_route_callback, locks,
                 poisoned, running, server, panicked>>

\* the call made under a guard panics: the task unwinds, the guard is
\* dropped, and the mutex is poisoned when it is a std mutex
Panic(c) ==
  /\ running
  /\ Locked(c)
  /\ conn[c].pc # "footers_length"
  /\ conn[c].pc = "headers" => headers # <<>>
  /\ conn[c].pc = "footers" => footers # <<>>
  /\ poisoned' = poisoned \cup
                   {g.lock : g \in {h \in conn[c].guards :
                                      h.lock \in StdMutexes}}
  /\ conn' = [conn EXCEPT ![c].pc = "panicked", ![c].panic = "call",
                          ![c].guards = {}]
  /\ UNCHANGED <<config, async_modules, modules, post_route_callback, locks,
                 error_count, running, server, panicked>>

\* the task of a connection that has panicked is over: its stream is
\* dropped
TaskEnd(c) ==
  /\ Serving(c, "panicked")
  /\ conn' = [conn EXCEPT ![c] = FreshConn]
  /\ UNCHANGED <<config, hooks, running, server, panicked>>

\* a step of handle() with its locks: the statements that take no lock
\* of their own, lock(), the calls made under a guard, and the drop
LockStep(c) ==
  \/ Unlocked(c) /\ Lookup(c)
  \/ Unlocked(c) /\ PreRouteAsyncModules(c)
  \/ Unlocked(c) /\ PreRouteModules(c)
  \/ Lock(c)
  \/ Locked(c) /\ PreRouteCallback(c)
  \/ Locked(c) /\ FootersLength(c)
  \/ Locked(c) /\ Headers(c)
  \/ Locked(c) /\ Footers(c)
  \/ Locked(c) /\ RouteCall(c)
  \/ Locked(c) /\ ErrorCall(c)
  \/ Drop(c)
  \/ Unlocked(c) /\ PostRouteAsyncModules(c)
  \/ Unlocked(c) /\ PostRouteModules(c)
  \/ Locked(c) /\ PostRouteCallback(c)
  \/ Unlocked(c) /\ Write(c)
  \/ Unlocked(c) /\ Shutdown(c)

\* add_footer through the clone, at any time: lock().unwrap() and a push
\* onto the list behind the Arc
CloneAddFooter ==
  /\ clone.some
  /\ ~panicked
  /\ "footers" \notin poisoned
  /\ Free(Guard("footers", <<>>))
  /\ Len(footers) < MaxPartials
  /\ footers' = Append(footers, FooterText(Len(footers) + 1))
  /\ clone' = Called("add_footer")
  /\ UNCHANGED <<routes, error_handler, headers, fix_path, character_set,
                 languages, hooks>>
  /\ CloneUnchanged

\* ------------------------------------------- Router::handle of src/lib.rs
\* the older Router of src/src/lib.rs has one module list and no async
\* modules, its post-route callback does not get the response, and its
\* handle() has the sections of the one above in another order: the steps
\* here are those that differ

\* fixed_path and routes.at(&fixed_path); the loop over the modules
\* comes next
LibLookup(c) ==
  /\ Serving(c, "lookup")
  /\ \E fixed \in FixedPath(routes, fix_path, conn[c].path) :
       LET route == At(routes, fixed) IN
         conn' = [conn EXCEPT ![c].pc = "pre_route_sync",
                              ![c].fixed_path = fixed,
                              ![c].route = route,
                              ![c].hook_parameters = HookParameters(route)]
  /\ UNCHANGED <<config, hooks, running, server, panicked>>

\* the matched route's handler; the response is written next
LibRouteHandler(c, response) ==
  /\ Serving(c, "route_handler")
  /\ conn' = [conn EXCEPT ![c].pc = "write",
                          ![c].content = response,
                          ![c].returned = response,
                          ![c].handled = "route",
                          ![c].log = Append(@, Event("call", "route", 0))]
  /\ UNCHANGED <<config, hooks, running, server, panicked>>

\* the error handler; the response is written next
LibErrorHandler(c, response) ==
  /\ Serving(c, "error_handler")
  /\ conn' = [conn EXCEPT ![c].pc = "write",
                          ![c].content = response,
                          ![c].returned = response,
                          ![c].handled = "error",
                          ![c].log =
                             Append(@, Event("call", "error_handler", 0))]
  /\ UNCHANGED <<config, hooks, running, server, panicked>>

\* the byte slices that a handler gives to Response::SuccessFile: text,
\* and bytes that are not UTF-8
Slices == {Hi, <<xFF>>, <<"h", xFF>>}

\* to_value_set_status of src/response.rs for SuccessFile(value, mime):
\* status 21, the mime type, and String::from_utf8(value.to_vec()).unwrap()
ToValueSetStatus(value, mime) ==
  LET content == FromUtf8(value)
  IN [ok |-> content.ok,
      response |-> Response(21, content.val, Some(mime), None, None)]

\* the matched route's handler returns Response::SuccessFile(value, Mime):
\* the response is written next, unless the unwrap has panicked, which
\* ends the task
LibSuccessFile(c, value) ==
  /\ Serving(c, "route_handler")
  /\ LET set == ToValueSetStatus(value, Mime)
     IN conn' = [conn EXCEPT
                   ![c].pc = IF set.ok THEN "write" ELSE "panicked",
                   ![c].content = IF set.ok THEN set.response ELSE @,
                   ![c].returned = Response(21, value, Some(Mime), None, None),
                   ![c].handled = "route",
                   ![c].log = Append(@, Event("call", "route", 0))]
  /\ UNCHANGED <<config, hooks, running, server, panicked>>

\* format!("{}{}\r\n{}", status, meta, body) of src/lib.rs: the header
\* line of status 20 is always text/gemini with the server's character
\* set and language, and for the statuses without a body the content
\* follows the status with no space between them
LibFrame(content, header, footer, charset, language) ==
  Display(IF content.status = 21 THEN 20 ELSE content.status)
    \o (CASE content.status = 20 ->
               SP \o TextGemini \o CharsetEq \o charset \o LangEq \o language
          [] content.status = 21 -> UnwrapOr(content.mime, <<>>)
          [] OTHER -> content.content)
    \o CRLF
    \o (CASE content.status = 20 -> header \o content.content \o LF \o footer
          [] content.status = 21 -> content.content
          [] OTHER -> <<>>)

\* stream.write_all(format!(...)); the loop over the modules'
\* on_post_route comes next
LibWrite(c) ==
  /\ Serving(c, "write")
  /\ conn' = [conn EXCEPT ![c].pc = "post_route_sync",
                          ![c].wire =
                             LibFrame(conn[c].content, conn[c].header,
                                      conn[c].footer, character_set,
                                      Join(languages, <<",">>)),
                          ![c].log = Append(@, Event("write", "stream", 0))]
  /\ UNCHANGED <<config, hooks, running, server, panicked>>

\* the post-route callback, called with the stream, the URL and the
\* parameters; stream.shutdown() comes next
LibPostRouteCallback(c) ==
  /\ Serving(c, "post_route_callback")
  /\ conn' = [conn EXCEPT
               ![c].pc = "shutdown",
               ![c].log = Append(@, Event("call", "post_route_callback", 0))]
  /\ UNCHANGED <<config, hooks, running, server, panicked>>

\* ------------------------------------------------- the framing environment
\* one route, every response, every combination of partials and of the
\* server's character set and languages

FramePaths == {Root, <<"/", "a">>}

Next ==
  \/ Mount(Root)
  \/ SetErrorHandler
  \/ AddHeader
  \/ AddFooter
  \/ SetCharacterSet(Koi)
  \/ SetLanguages(EnJa)
  \/ Run
  \/ \E c \in Conns :
       \/ Step(c)
       \/ \E path \in FramePaths : ReadRequest(c, path)
       \/ \E response \in Responses : RouteHandler(c, response)
       \/ \E response \in ErrorResponses(error_handler, Responses) :
            ErrorHandler(c, response)

Spec == Init /\ [][Next]_vars

\* ------------------------------------------------- the routing environment
\* every table of up to MaxRoutes patterns, every request path of up to
\* MaxPathLen characters, fix_path on and off

PathChars == {"/", "a", "A", "b"}

RequestPaths ==
  {p \in UNION {[1..n -> PathChars] : n \in 0..MaxPathLen} :
     p = <<>> \/ p[1] = "/"}

A == <<"/", "A">>
aa == <<"/", "a", "/", "a">>
ax == <<"/", "a", "/", ":", "x">>
xy == <<"/", ":", "x", "/", ":", "y">>

RoutePatterns == {Root, A, aa, ax, xy}

RouteResponses ==
  {Response(20, Hi, None, None, None), Response(10, Hi, None, None, None)}

NextRoute ==
  \/ \E pattern \in RoutePatterns : Mount(pattern)
  \/ SetFixPath(TRUE)
  \/ Run
  \/ \E c \in Conns :
       \/ Step(c)
       \/ \E path \in RequestPaths : ReadRequest(c, path)
       \/ \E response \in
            RouteResponses \cup {EchoResponse(conn[c].route_params)} :
            RouteHandler(c, response)
       \/ \E response \in ErrorResponses(error_handler, Responses) :
            ErrorHandler(c, response)

SpecRoute == Init /\ [][NextRoute]_vars

\* --------------------------------------------------- the hook environment
\* up to MaxModules modules on each list, the post-route callback of
\* examples/callbacks.rs or the default one, a request that matches the
\* route and one that does not

HelloBang == Hello \o <<"!">>

HookResponses ==
  {Response(20, HelloBang, None, None, None),
   Response(51, HelloBang, None, None, None)}

NextHooks ==
  \/ Mount(Root)
  \/ SetErrorHandler
  \/ AttachAsync
  \/ Attach
  \/ SetPostRouteCallback
  \/ Run
  \/ \E c \in Conns :
       \/ Step(c)
       \/ \E path \in FramePaths : ReadRequest(c, path)
       \/ \E response \in HookResponses : RouteHandler(c, response)
       \/ \E response \in ErrorResponses(error_handler, HookResponses) :
            ErrorHandler(c, response)

SpecHooks == Init /\ [][NextHooks]_vars

\* the same for the Router of src/lib.rs

NextLib ==
  \/ Mount(Root)
  \/ SetErrorHandler
  \/ Attach
  \/ Run
  \/ \E c \in Conns :
       \/ Accept(c)
       \/ \E path \in FramePaths : ReadRequest(c, path)
       \/ LibLookup(c)
       \/ PreRouteModules(c)
       \/ PreRouteCallback(c)
       \/ FootersLength(c)
       \/ Headers(c)
       \/ Footers(c)
       \/ \E response \in HookResponses : LibRouteHandler(c, response)
       \/ \E value \in Slices : LibSuccessFile(c, value)
       \/ \E response \in ErrorResponses(error_handler, HookResponses) :
            LibErrorHandler(c, response)
       \/ LibWrite(c)
       \/ PostRouteModules(c)
       \/ LibPostRouteCallback(c)
       \/ Shutdown(c)

SpecLib == Init /\ [][NextLib]_vars

\* ------------------------------------------------- the reading environment
\* one route; requests that are well formed, that carry bytes after their
\* CRLF, that are not UTF-8 or not a URL; every way of splitting their
\* bytes across reads

slashA == <<"/", "a">>

GeminiHost == <<"g", "e", "m", "i", "n", "i", ":", "/", "/", "h">>

Requests ==
  {GeminiHost \o slashA \o CRLF,
   GeminiHost \o slashA \o CRLF \o <<"/", "b">>,
   GeminiHost \o <<"/", xFF>> \o CRLF,
   <<"h">> \o slashA \o CRLF,
   GeminiHost \o <<":", "9">> \o GeminiHost \o slashA \o CRLF}

NextRead ==
  \/ Mount(slashA)
  \/ Run
  \/ \E c \in Conns :
       \/ Step(c)
       \/ Return(c)
       \/ \E bytes \in Requests : Send(c, bytes)
       \/ \E size \in 1..Len(conn[c].input) : Read(c, size)
       \/ \E response \in RouteResponses : RouteHandler(c, response)
       \/ \E response \in ErrorResponses(error_handler, Responses) :
            ErrorHandler(c, response)

SpecRead == Init /\ [][NextRead]_vars

\* --------------------------------------------- the concurrent environment
\* two connections served at the same time, two routes, modules on both
\* lists

slashB == <<"/", "b">>

\* the handler mounted at a pattern answers with the pattern's text
HandlerOf(pattern) == Response(20, pattern, None, None, None)

NextConc ==
  \/ \E pattern \in {slashA, slashB} : Mount(pattern)
  \/ AttachAsync
  \/ Attach
  \/ Run
  \/ \E c \in Tasks :
       \/ Step(c)
       \/ \E path \in {slashA, slashB} : ReadRequest(c, path)
       \/ RouteHandler(c, HandlerOf(conn[c].route.value))
       \/ \E response \in ErrorResponses(error_handler, Responses) :
            ErrorHandler(c, response)

\* Router::default(), with two connections to come
InitConc == Setup(Tasks)

SpecConc == InitConc /\ [][NextConc]_vars

\* --------------------------------------------------- the TLS environment
\* the server from Router::new() on any host: the files are named or
\* not, an acceptor is supplied or not, then run() is called
InitTls ==
  /\ Default(Conns)
  /\ private_key_file_name = ""
  /\ ca_file_name = ""
  /\ environment \in Hosts
  /\ call = None

NextTls ==
  \/ SetPrivateKeyFile
  \/ SetCertificateFile
  \/ SetSslAcceptor
  \/ Mount(Root)
  \/ Run
  \/ \E c \in Conns :
       \/ Step(c)
       \/ ReadRequest(c, Root)
       \/ RouteHandler(c, Response(20, Hi, None, None, None))
       \/ ErrorHandler(c, Response(51, DefaultErrorMessage, None, None, None))

SpecTls == InitTls /\ [][NextTls]_vars

\* ------------------------------------------------- the mount environment
\* patterns that are mounted twice or that name the parameter of one
\* position differently, then a request that the table is asked for

ay == <<"/", "a", "/", ":", "y">>

MountPatterns == {Root, ax, ay}

NextMount ==
  \/ \E pattern \in MountPatterns : Mount(pattern)
  \/ Run
  \/ \E c \in Conns :
       \/ Step(c)
       \/ \E path \in {Root, <<"/", "a", "/", "b">>} :
            ReadRequest(c, path)
       \/ RouteHandler(c, EchoResponse(conn[c].route_params))
       \/ ErrorHandler(c, Response(51, DefaultErrorMessage, None, None, None))

SpecMount == Init /\ [][NextMount]_vars

\* ------------------------------------------------- the clone environment
\* a Router is cloned, routes, partials, modules and callbacks are given
\* to the original or to its clone, the original is run and asked for /

NextClone ==
  \/ Mount(Root)
  \/ Clone
  \/ CloneMount(Root)
  \/ CloneSetErrorHandler
  \/ CloneSetPostRouteCallback
  \/ CloneAddHeader
  \/ CloneAttach
  \/ Run
  \/ \E c \in Conns :
       \/ Step(c)
       \/ ReadRequest(c, Root)
       \/ RouteHandler(c, Response(20, HelloBang, None, None, None))
       \/ ErrorHandler(c, Response(51, DefaultErrorMessage, None, None, None))

SpecClone == Init /\ [][NextClone]_vars

\* ------------------------------------------------ the utility environment
\* normalize_path_slashes on every string of up to MaxPathLen characters
\* out of PathChars, not only on paths

Strings == UNION {[1..n -> PathChars] : n \in 0..MaxPathLen}

InitUtilities ==
  /\ Default(Conns)
  /\ private_key_file_name = ""
  /\ ca_file_name = ""
  /\ environment = Host
  /\ call \in {Some([path |-> path, returned |-> <<>>]) : path \in Strings}

NextUtilities == NormalizePathSlashesCall

SpecUtilities == InitUtilities /\ [][NextUtilities]_vars

\* ------------------------------------------------- the error environment
\* one connection whose handshake, read, write or shutdown may fail, with
\* the route / mounted or not and up to MaxModules modules attached

NextErr ==
  \/ Mount(Root)
  \/ Attach
  \/ SetPostRouteCallback
  \/ Run
  \/ \E c \in Conns :
       \/ Step(c)
       \/ HandshakeError(c)
       \/ \E path \in FramePaths : ReadRequest(c, path)
       \/ ReadError(c)
       \/ \E response \in HookResponses : RouteHandler(c, response)
       \/ ErrorHandler(c, Response(51, DefaultErrorMessage, None, None, None))
       \/ WriteError(c)
       \/ ShutdownError(c)

SpecErr == Init /\ [][NextErr]_vars

\* the same for two connections served at the same time, one route and
\* the modules of one list; accept() may fail as well

NextErrConc ==
  \/ Mount(slashA)
  \/ Attach
  \/ Run
  \/ AcceptError
  \/ \E c \in Tasks :
       \/ Step(c)
       \/ HandshakeError(c)
       \/ \E path \in {slashA, slashB} : ReadRequest(c, path)
       \/ ReadError(c)
       \/ RouteHandler(c, HandlerOf(conn[c].route.value))
       \/ ErrorHandler(c, Response(51, DefaultErrorMessage, None, None, None))
       \/ WriteError(c)
       \/ ShutdownError(c)

SpecErrConc == InitConc /\ [][NextErrConc]_vars

\* the steps of handle() between the read loop and write_all: they wait
\* for no input and output, only for the locks
Dispatch(c) ==
  \/ Lookup(c)
  \/ PreRouteAsyncModules(c)
  \/ PreRouteModules(c)
  \/ PreRouteCallback(c)
  \/ FootersLength(c)
  \/ Headers(c)
  \/ Footers(c)
  \/ RouteHandler(c, HandlerOf(conn[c].route.value))
  \/ ErrorHandler(c, Response(51, DefaultErrorMessage, None, None, None))
  \/ PostRouteAsyncModules(c)
  \/ PostRouteModules(c)
  \/ PostRouteCallback(c)

\* the accept loop: two connections and one route, no modules
NextAccept ==
  \/ Mount(slashA)
  \/ Run
  \/ AcceptError
  \/ \E c \in Tasks :
       \/ Accept(c)
       \/ HandshakeError(c)
       \/ \E path \in {slashA, slashB} : ReadRequest(c, path)
       \/ ReadError(c)
       \/ Dispatch(c)
       \/ Write(c)
       \/ WriteError(c)
       \/ Shutdown(c)
       \/ ShutdownError(c)

\* the accept loop with the runtime's scheduling: a task that can go on
\* with its dispatch does so
SpecAccept ==
  /\ InitConc
  /\ [][NextAccept]_vars
  /\ \A c \in Tasks : WF_vars(Dispatch(c))

\* ----------------------------------------------- the partials environment
\* the requests of the read environment, whole or split across reads, with
\* up to MaxPartials header and footer partials registered

NextPartials ==
  \/ Mount(slashA)
  \/ AddHeader
  \/ AddFooter
  \/ Run
  \/ \E c \in Conns :
       \/ Step(c)
       \/ Return(c)
       \/ \E bytes \in Requests : Send(c, bytes)
       \/ \E size \in 1..Len(conn[c].input) : Read(c, size)
       \/ \E response \in RouteResponses : RouteHandler(c, response)
       \/ \E response \in ErrorResponses(error_handler, Responses) :
            ErrorHandler(c, response)

SpecPartials == Init /\ [][NextPartials]_vars

\* ------------------------------------------------- the lock environment
\* two connections served at the same time, lock by lock, with two routes
\* and the counting error handler of examples/error_handler.rs; a
\* connection is accepted while the counter is below MaxCalls

PermanentFailure == Response(51, <<"e">>, None, None, None)

NextLocks ==
  \/ \E pattern \in {slashA, slashB} : Mount(pattern)
  \/ SetErrorHandler
  \/ Run
  \/ \E c \in Tasks :
       \/ error_count < MaxCalls /\ Accept(c)
       \/ \E path \in {slashA, slashB} : ReadRequest(c, path)
       \/ LockStep(c)
       \/ RouteAwait(c, HandlerOf(conn[c].route.value))
       \/ \E response \in ErrorResponses(error_handler, {PermanentFailure}) :
            ErrorAwait(c, response)

SpecLocks == InitConc /\ [][NextLocks]_vars

\* -------------------------------------------- the hook lock environment
\* two connections served at the same time, lock by lock, with the route
\* / mounted or not, up to MaxModules sync modules and an async module or
\* none

NextHookLocks ==
  \/ Mount(Root)
  \/ async_modules = <<>> /\ AttachAsync
  \/ Attach
  \/ Run
  \/ \E c \in Tasks :
       \/ Accept(c)
       \/ ReadRequest(c, Root)
       \/ LockStep(c)
       \/ RouteAwait(c, HandlerOf(conn[c].route.value))
       \/ \E response \in ErrorResponses(error_handler, {PermanentFailure}) :
            ErrorAwait(c, response)

SpecHookLocks == InitConc /\ [][NextHookLocks]_vars

\* the steps that handle() takes for connection c by itself: they wait
\* for no input of the client, only for locks
Handling(c) ==
  \/ LockStep(c)
  \/ RouteAwait(c, HandlerOf(conn[c].route.value))
  \/ \E response \in ErrorResponses(error_handler, {PermanentFailure}) :
       ErrorAwait(c, response)

\* the hook lock environment with hooks and handlers that terminate and
\* locks that a waiting task gets in the end: a lock is released after
\* finitely many steps of its holder, which needs it again only for
\* another request, and the async mutex queues its waiters
SpecProgress ==
  /\ InitConc
  /\ [][NextHookLocks]_vars
  /\ \A c \in Tasks : SF_vars(Handling(c))

\* ------------------------------------------------ the footer environment
\* one connection served lock by lock at the route /, while add_footer is
\* called on the Router before it runs and on a clone of it at any time

NextFooters ==
  \/ Mount(Root)
  \/ AddFooter
  \/ Clone
  \/ CloneAddFooter
  \/ Run
  \/ \E c \in Conns :
       \/ Accept(c)
       \/ ReadRequest(c, Root)
       \/ LockStep(c)
       \/ RouteAwait(c, HandlerOf(conn[c].route.value))
       \/ \E response \in ErrorResponses(error_handler, {PermanentFailure}) :
            ErrorAwait(c, response)

SpecFooters == Init /\ [][NextFooters]_vars

\* ------------------------------------------------- the panic environment
\* connections served one after the other, lock by lock, with a header
\* partial or none, in which the handler, a partial or a callback may
\* panic

NextPanic ==
  \/ Mount(Root)
  \/ AddHeader
  \/ Run
  \/ \E c \in Conns :
       \/ Accept(c)
       \/ ReadRequest(c, Root)
       \/ LockStep(c)
       \/ RouteAwait(c, HandlerOf(conn[c].route.value))
       \/ \E response \in ErrorResponses(error_handler, {PermanentFailure}) :
            ErrorAwait(c, response)
       \/ Panic(c)
       \/ TaskEnd(c)

SpecPanic == Init /\ [][NextPanic]_vars

\* ================================================================ claims

\* the response of connection c has been written and its locals are
\* still there
Written(c) == conn[c].pc = "shutdown"

\* the two digits of a status code
TwoDigits(status) ==
  <<DigitChar[(status \div 10) + 1], DigitChar[(status % 10) + 1]>>

IsPrefix(p, s) == Len(p) <= Len(s) /\ SubSeq(s, 1, Len(p)) = p

\* the bytes of s after its first CRLF (nothing when it has none)
RECURSIVE AfterCRLF(_)
AfterCRLF(s) ==
  IF Len(s) < 2 THEN <<>>
  ELSE IF s[1] = "\r" /\ s[2] = "\n" THEN SubSeq(s, 3, Len(s))
  ELSE AfterCRLF(Tail(s))

\* C1: a response whose status is not a success status is written as
\* `<status> <content>\r\n` and nothing else, whatever partials are
\* registered
C1_StatusFraming ==
  \A c \in Conns :
    (Written(c) /\ conn[c].content.status \in EmittedCodes \ {20})
      => conn[c].wire = TwoDigits(conn[c].content.status) \o <<" ">>
                          \o conn[c].content.content \o <<"\r", "\n">>

C1_Witness ==
  \E c \in Conns :
    /\ Written(c)
    /\ conn[c].handled = "route"
    /\ conn[c].content.status = 10
    /\ Len(headers) = 2
    /\ Len(footers) = 2

\* C2: a status-20 response begins with the line
\* `20 <mime>; charset=<cs>; lang=<langs>` CRLF, mime defaulting to
\* text/gemini, cs and langs to the server's; with all defaults the line
\* is `20 text/gemini; charset=utf-8; lang=en`
C2_SuccessHeaderLine ==
  \A c \in Conns :
    (Written(c) /\ conn[c].content.status = 20)
      => LET r == conn[c].content
             mime == IF r.mime.some THEN r.mime.val
                     ELSE <<"t", "e", "x", "t", "/", "g", "e", "m", "i", "n", "i">>
             cs == IF r.character_set.some THEN r.character_set.val
                   ELSE character_set
             langs == IF r.languages.some THEN r.languages.val
                      ELSE languages
             line == <<"2", "0", " ">> \o mime
                       \o <<";", " ", "c", "h", "a", "r", "s", "e", "t", "=">> \o cs
                       \o <<";", " ", "l", "a", "n", "g", "=">>
                       \o Join(langs, <<",">>) \o <<"\r", "\n">>
         IN /\ IsPrefix(line, conn[c].wire)
            /\ (/\ ~r.mime.some /\ ~r.character_set.some /\ ~r.languages.some
                /\ character_set = <<"u", "t", "f", "-", "8">>
                /\ languages = << <<"e", "n">> >>)
                 => IsPrefix(<<"2", "0", " ", "t", "e", "x", "t", "/", "g", "e",
                               "m", "i", "n", "i", ";", " ", "c", "h", "a", "r",
                               "s", "e", "t", "=", "u", "t", "f", "-", "8", ";",
                               " ", "l", "a", "n", "g", "=", "e", "n", "\r", "\n">>,
                             conn[c].wire)

C2_Witness ==
  \E c \in Conns :
    /\ Written(c)
    /\ conn[c].content.status = 20
    /\ ~conn[c].content.mime.some
    /\ ~conn[c].content.character_set.some
    /\ character_set = Koi
    /\ conn[c].content.languages = Some(DeFr)

\* C3: on a matched route answering 20 with body B, with at least one
\* header and one footer partial, the bytes after the header line are
\* every header text followed by a newline, then B, a newline, and the
\* footer texts joined by single newlines, with no trailing newline
C3_PartialComposition ==
  \A c \in Conns :
    (/\ Written(c)
     /\ conn[c].handled = "route"
     /\ conn[c].content.status = 20
     /\ Len(headers) >= 1
     /\ Len(footers) >= 1)
      => AfterCRLF(conn[c].wire) =
           Join(headers, <<"\n">>) \o <<"\n">> \o conn[c].content.content
             \o <<"\n">> \o Join(footers, <<"\n">>)

C3_Witness ==
  \E c \in Conns :
    /\ Written(c)
    /\ conn[c].handled = "route"
    /\ conn[c].content.status = 20
    /\ conn[c].content.content = Hi
    /\ headers = << <<"H", "1">>, <<"H", "2">> >>
    /\ footers = << <<"F", "1">>, <<"F", "2">> >>
    /\ AfterCRLF(conn[c].wire) =
         <<"H", "1", "\n", "H", "2", "\n", "H", "i", "\n",
           "F", "1", "\n", "F", "2">>

\* C4: without footer partials nothing follows the handler's body of a
\* status-20 response, and without header partials nothing precedes it
C4_NoPartialsBodyOnly ==
  \A c \in Conns :
    (/\ Written(c)
     /\ conn[c].handled = "route"
     /\ conn[c].content.status = 20
     /\ headers = <<>>
     /\ footers = <<>>)
      => AfterCRLF(conn[c].wire) = conn[c].content.content

\* C5: a binary success with the caller's MIME m (status 21) is written
\* as `20 <m>\r\n` followed by the body
C5_BinarySuccessFraming ==
  \A c \in Conns :
    (Written(c) /\ conn[c].content.status = 21 /\ conn[c].content.mime.some)
      => conn[c].wire = <<"2", "0", " ">> \o conn[c].content.mime.val
                          \o <<"\r", "\n">> \o conn[c].content.content

\* C6: the status written is one of the protocol's codes, the internal
\* markers 21 and 22 are written as 20, and bytes follow the header line
\* only for a response of status 20, 21 or 22
C6_EmittedStatus ==
  \A c \in Conns :
    Written(c)
      => /\ \E s \in EmittedCodes : IsPrefix(TwoDigits(s), conn[c].wire)
         /\ conn[c].content.status \in {21, 22}
              => IsPrefix(<<"2", "0">>, conn[c].wire)
         /\ AfterCRLF(conn[c].wire) # <<>>
              => conn[c].content.status \in {20, 21, 22}

C6_Witness ==
  \E c \in Conns :
    /\ Written(c)
    /\ conn[c].content.status = 22
    /\ IsPrefix(<<"2", "0">>, conn[c].wire)
    /\ AfterCRLF(conn[c].wire) = Hi

\* ------------------------------------------------------- routing claims

\* the request of connection c has been looked up
LookedUp(c) == conn[c].pc \notin {"idle", "read", "returned", "lookup"}

\* a handler has been invoked for connection c
Dispatched(c) == conn[c].handled # "none"

ab == <<"/", "a", "/", "b">>

\* C7: with /a/a and /a/:x both mounted (as /users/list and /users/:id),
\* a request to /a/a invokes the handler of /a/a and a request to /a/b
\* that of /a/:x with x = b; wherever the matched pattern has a parameter,
\* no mounted pattern with the same prefix has the request's segment as a
\* literal there
C7_LiteralBeforeParameter ==
  \A c \in Conns :
    /\ (Dispatched(c) /\ {aa, ax} \subseteq routes /\ conn[c].path = aa)
         => (conn[c].handled = "route" /\ conn[c].route.value = aa)
    /\ (Dispatched(c) /\ {aa, ax} \subseteq routes /\ conn[c].path = ab)
         => /\ conn[c].handled = "route"
            /\ conn[c].route.value = ax
            /\ <<"x">> \in DOMAIN conn[c].route_params
            /\ conn[c].route_params[<<"x">>] = <<"b">>
    /\ (Dispatched(c) /\ conn[c].handled = "route")
         => LET ps == Segments(conn[c].route.value)
                segs == Segments(conn[c].fixed_path)
            IN \A i \in 1..Len(ps) :
                 IsParam(ps[i])
                   => ~\E q \in routes :
                         /\ Len(Segments(q)) >= i
                         /\ SubSeq(Segments(q), 1, i - 1) = SubSeq(ps, 1, i - 1)
                         /\ Segments(q)[i] = segs[i]

C7_Witness ==
  \E c \in Conns :
    /\ routes = {aa, ax}
    /\ ~panicked
    /\ conn[c].path = ab
    /\ conn[c].handled = "route"
    /\ conn[c].route.value = ax
    /\ conn[c].route_params[<<"x">>] = <<"b">>

\* the names of the parameters of a pattern
ParamNames(pattern) ==
  {ParamName(Segments(pattern)[i]) :
     i \in {j \in 1..Len(Segments(pattern)) : IsParam(Segments(pattern)[j])}}

\* C8: the handler's context maps exactly the parameter names of the
\* matched pattern, each to the request path's segment at its position
\* (none for a static route); the handler of /:x/:y answering
\* x + " " + y answers `a b` to /a/b; the hook context carries parameters
\* exactly when a route matched
C8_Parameters ==
  \A c \in Conns :
    /\ (Dispatched(c) /\ conn[c].handled = "route")
         => LET ps == Segments(conn[c].route.value) IN
              /\ DOMAIN conn[c].route_params = ParamNames(conn[c].route.value)
              /\ \A i \in 1..Len(ps) :
                   IsParam(ps[i])
                     => conn[c].route_params[ParamName(ps[i])]
                          = Segments(conn[c].path)[i]
    /\ (/\ Dispatched(c) /\ conn[c].handled = "route"
        /\ conn[c].route.value = xy /\ conn[c].path = ab)
         => EchoResponse(conn[c].route_params).content = <<"a", " ", "b">>
    /\ LookedUp(c)
         => /\ conn[c].hook_parameters.some = conn[c].route.ok
            /\ conn[c].hook_parameters.some
                 => /\ DOMAIN conn[c].hook_parameters.val
                         = ParamNames(conn[c].route.value)
                    /\ \A i \in 1..Len(Segments(conn[c].route.value)) :
                         IsParam(Segments(conn[c].route.value)[i])
                           => conn[c].hook_parameters.val
                                [ParamName(Segments(conn[c].route.value)[i])]
                                = Segments(conn[c].path)[i]

C8_Witness ==
  \E c \in Conns :
    /\ Written(c)
    /\ conn[c].handled = "route"
    /\ conn[c].route.value = xy
    /\ conn[c].path = ab
    /\ conn[c].route_params[<<"x">>] = <<"a">>
    /\ conn[c].route_params[<<"y">>] = <<"b">>
    /\ conn[c].content.content = <<"a", " ", "b">>

\* path without its trailing slash, if it has one and is not "/"
NoTrailingSlash(path) ==
  IF Len(path) > 1 /\ path[Len(path)] = "/"
  THEN SubSeq(path, 1, Len(path) - 1) ELSE path

\* path and pattern differ at most in letter case and in a trailing slash
\* (a parameter segment stands for any non-empty segment)
RelaxedMatch(pattern, path) ==
  /\ path # <<>>
  /\ path[1] = "/"
  /\ \E form \in {pattern, pattern \o <<"/">>, NoTrailingSlash(pattern)} :
       LET ps == Segments(form)
           segs == Segments(path)
       IN /\ Len(ps) = Len(segs)
          /\ \A i \in 1..Len(ps) :
               IF IsParam(ps[i]) THEN segs[i] # <<>>
               ELSE Lower(ps[i]) = Lower(segs[i])

IsStatic(pattern) ==
  \A i \in 1..Len(Segments(pattern)) : ~IsParam(Segments(pattern)[i])

aSlash == <<"/", "a", "/">>

\* C9: with fix_path, a request path that differs from a mounted static
\* pattern only in letter case and/or a trailing slash is dispatched to
\* the handler of such a pattern (route /A, request /a/), and one that
\* matches no mounted pattern under the relaxed rules is looked up as it
\* is; without fix_path the request path is looked up as it is (route /A,
\* request /a/ is a miss)
C9_FixPath ==
  \A c \in Conns :
    LookedUp(c) =>
      /\ (fix_path /\ \E p \in routes : IsStatic(p) /\ RelaxedMatch(p, conn[c].path))
           => /\ conn[c].route.ok
              /\ IsStatic(conn[c].route.value)
              /\ RelaxedMatch(conn[c].route.value, conn[c].path)
              /\ Dispatched(c) => conn[c].handled = "route"
      /\ (fix_path /\ routes = {A} /\ conn[c].path = aSlash)
           => conn[c].route.ok /\ conn[c].route.value = A
      /\ (fix_path /\ conn[c].path # <<>>
            /\ ~\E p \in routes : RelaxedMatch(p, conn[c].path))
           => /\ conn[c].fixed_path = conn[c].path
              /\ ~conn[c].route.ok
              /\ Dispatched(c) => conn[c].handled = "error"
      /\ ~fix_path
           => /\ conn[c].fixed_path = conn[c].path
              /\ conn[c].route = At(routes, conn[c].path)
      /\ (~fix_path /\ routes = {A} /\ conn[c].path = aSlash)
           => /\ ~conn[c].route.ok
              /\ Dispatched(c) => conn[c].handled = "error"

C9_Witness ==
  \E c \in Conns :
    /\ Written(c)
    /\ fix_path
    /\ routes = {A}
    /\ conn[c].path = aSlash
    /\ conn[c].handled = "route"
    /\ conn[c].route.value = A

\* C10: a request with an empty path is looked up as "/", with fix_path
\* or without: with a handler mounted at "/" it reaches that handler and
\* not the error handler
C10_EmptyPathIsRoot ==
  \A c \in Conns :
    (Dispatched(c) /\ Root \in routes /\ conn[c].path = <<>>)
      => (conn[c].handled = "route" /\ conn[c].route.value = Root)

\* --------------------------------------------------- error handling claims

\* how many entries of the log of connection c are invocations on of
Invocations(c, of) ==
  Cardinality({k \in DOMAIN conn[c].log : conn[c].log[k].of = of})

\* C11: a request whose path matches no route invokes the error handler
\* exactly once and no route handler, invokes no header or footer partial,
\* and its response is framed as every response is, with no partial text;
\* the default error handler's reply is
\* `51 This capsule has not implemented an error handler...` CRLF
C11_RouteMiss ==
  \A c \in Conns :
    (LookedUp(c) /\ ~conn[c].route.ok)
      => /\ Invocations(c, "route") = 0
         /\ Invocations(c, "headers") = 0
         /\ Invocations(c, "footers") = 0
         /\ Invocations(c, "error_handler") <= 1
         /\ Written(c)
              => /\ Invocations(c, "error_handler") = 1
                 /\ conn[c].handled = "error"
                 /\ conn[c].wire =
                      Frame(conn[c].content, <<>>, <<>>, character_set,
                            languages)
                 /\ error_handler = "default"
                      => conn[c].wire =
                           <<"5", "1", " ", "T", "h", "i", "s", " ", "c", "a",
                             "p", "s", "u", "l", "e", " ", "h", "a", "s", " ",
                             "n", "o", "t", " ", "i", "m", "p", "l", "e", "m",
                             "e", "n", "t", "e", "d", " ", "a", "n", " ", "e",
                             "r", "r", "o", "r", " ", "h", "a", "n", "d", "l",
                             "e", "r", ".", ".", ".", "\r", "\n">>

C11_Witness ==
  \E c \in Conns :
    /\ Written(c)
    /\ conn[c].path = <<"/", "a">>
    /\ ~conn[c].route.ok
    /\ routes = {Root}
    /\ error_handler = "default"
    /\ Len(headers) = 2
    /\ Len(footers) = 2

\* the bytes of s before its first CRLF (all of s when it has none)
RECURSIVE BeforeCRLF(_)
BeforeCRLF(s) ==
  IF Len(s) < 2 THEN s
  ELSE IF s[1] = "\r" /\ s[2] = "\n" THEN <<>>
  ELSE <<s[1]>> \o BeforeCRLF(Tail(s))

\* the request line the client of connection c sent is not UTF-8 or is
\* not a URL
Malformed(c) ==
  /\ conn[c].sent # <<>>
  /\ \/ ~FromUtf8(BeforeCRLF(conn[c].sent)).ok
     \/ ~UrlParse(BeforeCRLF(conn[c].sent)).ok

EndsWith(s, p) ==
  Len(p) <= Len(s) /\ SubSeq(s, Len(s) - Len(p) + 1, Len(s)) = p

\* C12: the reply to a request that is not UTF-8 or not a URL is
\* `59 <message>` followed by CRLF, the only CRLF of the reply
C12_BadRequestReply ==
  \A c \in Conns :
    conn[c].pc = "returned"
      => /\ StartsWith(conn[c].wire, <<"5", "9", " ">>)
         /\ EndsWith(conn[c].wire, <<"\r", "\n">>)
         /\ AfterCRLF(conn[c].wire) = <<>>

\* C13: for a request line that is not UTF-8 or not a URL no route
\* handler, error handler, module hook, callback or partial is invoked
C13_MalformedInvokesNothing ==
  \A c \in Conns :
    Malformed(c) => (conn[c].log = <<>> /\ conn[c].handled = "none")

\* C20: the request dispatched is the decoding of the bytes sent before
\* the first CRLF, however the bytes were split across reads: its path is
\* the path of that URL, and only a request line that is not UTF-8 or not
\* a URL is answered by or_error!
C20_RequestLine ==
  \A c \in Conns :
    /\ (LookedUp(c) /\ conn[c].sent # <<>>)
         => /\ ~Malformed(c)
            /\ conn[c].path = UrlParse(BeforeCRLF(conn[c].sent)).path
    /\ conn[c].pc = "returned" => Malformed(c)

\* ------------------------------------------------------------ hook claims

\* the entries of the log of connection c before its j-th
Before(c, j) == SubSeq(conn[c].log, 1, j - 1)

\* the hooks named name in a log, in their order
Hooked(log, name) == SelectSeq(log, LAMBDA e : e.event = name)

\* hook name once on every module: the async modules in the order they
\* were attached, then the sync modules in the order they were attached
EveryModule(name) ==
  [k \in 1..Len(async_modules) |-> Event(name, "async_modules", k)]
    \o [k \in 1..Len(modules) |-> Event(name, "modules", k)]

\* the log has an entry for of
Has(log, of) == \E k \in DOMAIN log : log[k].of = of

C15_ModuleHooks ==
  \A c \in Conns :
    /\ \A j \in DOMAIN conn[c].log :
         conn[c].log[j].of \in {"route", "error_handler"}
           => /\ Hooked(Before(c, j), "on_pre_route")
                   = EveryModule("on_pre_route")
              /\ Hooked(Before(c, j), "on_post_route") = <<>>
    /\ Written(c)
         => /\ Hooked(conn[c].log, "on_pre_route")
                 = EveryModule("on_pre_route")
            /\ Hooked(conn[c].log, "on_post_route")
                 = EveryModule("on_post_route")
            /\ Invocations(c, "route") + Invocations(c, "error_handler") = 1

C15_Witness ==
  \E c \in Conns :
    /\ Written(c)
    /\ Len(async_modules) = 2
    /\ Len(modules) = 2
    /\ conn[c].handled = "error"

\* C16: when on_pre_route of a module is invoked for a request, the
\* pre-route callback has been invoked for it
C16_CallbackBeforeModules ==
  \A c \in Conns :
    \A j \in DOMAIN conn[c].log :
      conn[c].log[j].event = "on_pre_route"
        => Has(Before(c, j), "pre_route_callback")

\* C17: when the route handler is invoked every header partial has been
\* invoked and no footer partial; every footer partial is invoked after it
C17_PartialsAroundHandler ==
  \A c \in Conns :
    /\ \A j \in DOMAIN conn[c].log :
         conn[c].log[j].of = "route"
           => /\ Invocations(c, "headers") = Len(headers)
              /\ \A k \in 1..(j - 1) : conn[c].log[k].of # "footers"
    /\ \A j \in DOMAIN conn[c].log :
         conn[c].log[j].of = "footers" => Has(Before(c, j), "route")

\* C18: on_post_route of a module is invoked after the handler or the
\* error handler and before the post-route callback, and nothing is
\* written before the post-route callback has been invoked
C18_PostHooksBeforeWrite ==
  \A c \in Conns :
    /\ \A j \in DOMAIN conn[c].log :
         /\ conn[c].log[j].event = "on_post_route"
              => /\ Has(Before(c, j), "route")
                      \/ Has(Before(c, j), "error_handler")
                 /\ ~Has(Before(c, j), "post_route_callback")
         /\ conn[c].log[j].event = "write"
              => Has(Before(c, j), "post_route_callback")
    /\ conn[c].wire # <<>> => Has(conn[c].log, "post_route_callback")

\* ----------------------------------------------------- concurrency claims

\* connection c has just invoked on_pre_route of the k-th module of list l
JustClicked(c, l, k) ==
  /\ Len(conn'[c].log) = Len(conn[c].log) + 1
  /\ conn'[c].log[Len(conn'[c].log)] = Event("on_pre_route", l, k)

\* in a step every module of list l (before before the step, after after
\* it) has counted one click for every connection that has invoked its
\* on_pre_route
CountsClicks(l, before, after) ==
  /\ Len(after) >= Len(before)
  /\ \A k \in 1..Len(before) :
       after[k].clicks
         = before[k].clicks
             + Cardinality({c \in Tasks : JustClicked(c, l, k)})

Unusable ==
  \/ ~environment.private_key
  \/ ~environment.certificate
  \/ ~environment.matches

\* run() has not been called, or has returned
NotServing ==
  /\ ~running
  /\ listener = "none"
  /\ \A c \in DOMAIN conn : conn[c] = FreshConn

\* C21: when the private key or the certificate file is unreadable, or
\* the two do not match, no listener is ever bound and no connection is
\* ever accepted or handled, and the step that calls run() ends with the
\* error as the result of run()
C21_AcceptorErrorBeforeBind ==
  /\ [](Unusable => NotServing)
  /\ [][Unusable /\ (result' # result \/ running' # running)
          => result' = "Err" /\ NotServing']_vars

\* both files are named, one of them is unusable, and run() has returned
\* the error
C21_Witness ==
  /\ Unusable
  /\ private_key_file_name = PrivateKeyFile
  /\ ca_file_name = CertificateFile
  /\ result = "Err"
  /\ NotServing

\* C22: once set_ssl_acceptor(a) has supplied the acceptor, the server
\* keeps it: no step, run() included, replaces it, and on a host whose
\* port is free run() does not return an error, whether or not the key
\* and certificate files are named
C22_CallerAcceptorKept ==
  [][ssl_acceptor = "caller"
       => /\ ssl_acceptor' = "caller"
          /\ environment.port => result' = "none"]_vars

\* patterns p and q name the parameter of one position differently
ParameterClash(p, q) ==
  \E i \in 1..Len(Segments(p)) :
    /\ i <= Len(Segments(q))
    /\ \A j \in 1..(i - 1) : Segments(p)[j] = Segments(q)[j]
    /\ IsParam(Segments(p)[i])
    /\ IsParam(Segments(q)[i])
    /\ ParamName(Segments(p)[i]) # ParamName(Segments(q)[i])

Through(method) == clone.some /\ method \in clone.val.calls

\* C24: what was configured through a clone of the Router is seen by a
\* request that the original handles: a route mounted through the clone
\* is found, a module attached through it has its on_pre_route invoked, a
\* header added through it is part of the header composite, and the
\* post-route callback set through it has rewritten the response that is
\* written
C24_ClonesShare ==
  \A c \in DOMAIN conn :
    /\ (LookedUp(c) /\ Through("mount") /\ conn[c].path = Root)
         => conn[c].route.ok
    /\ (Dispatched(c) /\ Through("attach"))
         => /\ modules # <<>>
            /\ \A k \in 1..Len(modules) :
                 \E j \in DOMAIN conn[c].log :
                   conn[c].log[j] = Event("on_pre_route", "modules", k)
    /\ (Dispatched(c) /\ conn[c].handled = "route" /\ Through("add_header"))
         => /\ headers # <<>>
            /\ conn[c].header = HeaderComposite(headers)
    /\ (Written(c) /\ Through("set_post_route_callback"))
         => conn[c].content = PostRouteHook("replace", conn[c].returned)

\* the handler of connection c has returned a binary success response
Binary(c) == conn[c].handled = "route" /\ conn[c].returned.status \in {21, 22}

\* C25: when the handler has returned a binary success response, for
\* bytes that are UTF-8 and for bytes that are not, the task goes on to
\* write, and what it writes after the header line is exactly the bytes
\* the handler gave, without the text of any partial
C25_BinaryBodyVerbatim ==
  \A c \in Conns :
    Binary(c)
      => /\ conn[c].pc # "panicked"
         /\ conn[c].wire # <<>>
              => AfterCRLF(conn[c].wire) = conn[c].returned.content

\* the number of characters of path before its trailing slashes
Kept(path) ==
  CHOOSE n \in 0..Len(path) :
    /\ n = 0 \/ path[n] # "/"
    /\ \A j \in (n + 1)..Len(path) : path[j] = "/"

\* C26: normalize_path_slashes returns "/" for "/", and for every other
\* string the string without its trailing slashes, which is the string
\* itself when it does not end with a slash
C26_NormalizePathSlashes ==
  (call.some /\ call.val.returned # <<>>)
    => LET path == call.val.path
           returned == call.val.returned[1]
       IN /\ path = Root => returned = Root
          /\ path # Root => returned = SubSeq(path, 1, Kept(path))
          /\ (path # <<>> /\ path[Len(path)] # "/") => returned = path

\* "/a//" has been normalized to "/a"
C26_Witness ==
  /\ call.some
  /\ call.val.path = <<"/", "a", "/", "/">>
  /\ call.val.returned # <<>>
  /\ call.val.returned[1] = <<"/", "a">>

\* nothing has been invoked for connection c and nothing has been written
\* to it
Untouched(c) ==
  /\ conn[c].log = <<>>
  /\ conn[c].handled = "none"
  /\ conn[c].wire = <<>>

\* C27: for a connection whose TLS handshake has failed no request is
\* read and looked up, no module hook, callback, partial or handler is
\* invoked and nothing is written
C27_HandshakeFailureDispatchesNothing ==
  \A c \in Conns :
    conn[c].handshake = "Err"
      => /\ conn[c].pc \in {"idle", "read"}
         /\ Untouched(c)

\* C28: for a connection whose read has failed before a request line was
\* there no module hook, callback, partial or handler is invoked and
\* nothing is written
C28_ReadFailureDispatchesNothing ==
  \A c \in Conns :
    conn[c].read = "Err"
      => /\ Untouched(c)
         /\ conn[c].pc \notin {"write", "shutdown"}

\* connection c has met no error of its own
Sound(c) == conn[c].handshake = "Ok" /\ conn[c].read = "none"

\* C29: while connections fail at their handshake, read, write or
\* shutdown, a task that has ended holds no lock, a step of one
\* connection leaves the locals of the other alone, and a connection that
\* has met no error of its own is answered for its own request: by the
\* handler of the route its path matched with the body made for its
\* path, or by the error handler when no route matches its path
C29_ErrorsStayLocal ==
  /\ [](\A c \in Tasks :
          /\ conn[c].pc = "idle" => \A l \in Locks : locks[l] # c
          /\ (Sound(c) /\ Written(c) /\ conn[c].handled = "route")
               => /\ conn[c].route.value = conn[c].path
                  /\ AfterCRLF(conn[c].wire)
                       \in {conn[c].path, conn[c].path \o <<"\n">>}
          /\ (Sound(c) /\ Written(c) /\ conn[c].handled = "error")
               => /\ ~At(routes, conn[c].path).ok
                  /\ conn[c].wire
                       = <<"5", "1", " ">> \o DefaultErrorMessage \o CRLF)
  /\ [][Cardinality({c \in Tasks : conn'[c] # conn[c]}) <= 1]_vars

\* the handshake of the first connection has failed and its task has got
\* as far as a module's hook, while the second connection, accepted
\* after that error, has its response written
C29_Witness ==
  /\ conn["c1"].handshake = "Err"
  /\ Has(conn["c1"].log, "modules")
  /\ modules # <<>>
  /\ Sound("c2")
  /\ conn["c2"].after > 0
  /\ Written("c2")
  /\ conn["c2"].handled = "route"

OnlySlashes(path) == path # <<>> /\ \A j \in 1..Len(path) : path[j] = "/"

\* C39: normalize_path_slashes is idempotent, and for an input beginning
\* with "/" it returns a non-empty path that begins with "/" and ends with
\* a slash only when it is "/"; an input of slashes only normalizes to "/"
C39_NormalizeIdempotentAbsolute ==
  (call.some /\ call.val.returned # <<>>)
    => LET path == call.val.path
           returned == call.val.returned
           first == returned[1]
       IN /\ Len(returned) > 1 => returned[2] = first
          /\ (path # <<>> /\ path[1] = "/")
               => /\ first # <<>>
                  /\ first[1] = "/"
                  /\ first[Len(first)] = "/" => first = Root
          /\ OnlySlashes(path) => first = Root

\* the calls of partials in a log, in their order
Partials(log) == SelectSeq(log, LAMBDA e : e.of \in {"headers", "footers"})

\* C36: once the handler of a matched route has returned, whatever its
\* status, every header partial and then every footer partial has been
\* called exactly once, in registration order; for a request that matches
\* no route, or whose request line is not UTF-8 or not a URL, no partial
\* is called
C36_PartialsOncePerMatch ==
  \A c \in Conns :
    /\ conn[c].handled = "route"
         => Partials(conn[c].log) =
              Calls("headers", Len(headers)) \o Calls("footers", Len(footers))
    /\ (Malformed(c) \/ (LookedUp(c) /\ ~conn[c].route.ok))
         => Partials(conn[c].log) = <<>>

\* ------------------------------------------------------ the lock claims

\* the handler of connection c has been called and the future it returned
\* has not completed
RouteFuture(c) == conn[c].pc = "route_future"

\* C34: two connections never have the handler future of the same route
\* in progress at the same time: the route's lock is held from the call of
\* the handler until its future has completed (the futures of different
\* routes may be in progress together: C34_Witness)
C34_RouteHandlersExclusive ==
  \A c \in Tasks :
    RouteFuture(c)
      => /\ Guard("route", conn[c].route.value) \in conn[c].guards
         /\ \A d \in Tasks \ {c} :
              RouteFuture(d) => conn[d].route.value # conn[c].route.value

\* the handler of /a is in progress for one connection and the handler of
\* /b for the other, while both routes are mounted
C34_Witness ==
  /\ RouteFuture("c1")
  /\ RouteFuture("c2")
  /\ conn["c1"].route.value = slashA
  /\ conn["c2"].route.value = slashB

\* the error handler has been called for connection c and its future has
\* not completed
ErrorFuture(c) == conn[c].pc = "error_future"

\* the invocations of the error handler that complete in a step
Completing ==
  {c \in Tasks : ErrorFuture(c) /\ conn'[c].pc = "post_route_async"}

\* C32: the error handler is invoked under its lock: its invocations for
\* two connections never overlap, and every invocation that completes
\* adds exactly one to the counter of its closure, which nothing else
\* changes, so that the counter is the number of route-miss requests
\* handled (no lost update); the default error handler counts nothing
C32_ErrorHandlerCounts ==
  [][/\ \A c \in Tasks :
          ErrorFuture(c)
            => /\ Guard("error_handler", <<>>) \in conn[c].guards
               /\ \A d \in Tasks \ {c} : ~ErrorFuture(d)
     /\ error_count' = IF error_handler = "user"
                       THEN error_count + Cardinality(Completing)
                       ELSE error_count]_vars

\* the error handler has counted a second route miss of the two
\* connections
C32_Witness ==
  /\ error_handler = "user"
  /\ error_count > 1
  /\ \E c \in Tasks : conn[c].handled = "error"

\* the positions of handle() in the loops over the module list l
ModuleLoops(l) ==
  IF l = "async_modules" THEN {"pre_route_async", "post_route_async"}
  ELSE {"pre_route_sync", "post_route_sync"}

\* connection c is in a loop over the module list l: it has invoked some
\* of the modules and not yet all of them
InLoop(c, l) == conn[c].i > 0 /\ conn[c].pc \in ModuleLoops(l)

Callbacks == {"pre_route_callback", "post_route_callback"}

\* a step makes one invocation for connection c
Invoking(c) == Len(conn'[c].log) = Len(conn[c].log) + 1

\* the invocation it makes
Invoked(c) == conn'[c].log[Len(conn'[c].log)]

\* C31: a module hook is invoked only by the connection that holds the
\* lock of the module's list, which it keeps from the first hook of a loop
\* to the last, and a pre- or post-route callback only under the guard of
\* its lock, which no two connections have at the same time; the lock is
\* free again between the on_pre_route and the on_post_route of a request
\* (C31_Witness: the other connection's on_pre_route runs in between)
C31_HooksUnderLock ==
  /\ [](\A c \in Tasks :
          /\ \A l \in Locks : InLoop(c, l) => locks[l] = c
          /\ \A callback \in Callbacks :
               Guard(callback, <<>>) \in conn[c].guards
                 => \A d \in Tasks \ {c} :
                      Guard(callback, <<>>) \notin conn[d].guards)
  /\ [][\A c \in Tasks :
          Invoking(c)
            => /\ Invoked(c).of \in Locks
                    => locks[Invoked(c).of] \in {"free", c}
               /\ Invoked(c).of \in Callbacks
                    => Guard(Invoked(c).of, <<>>) \in conn[c].guards]_vars

\* on_pre_route of the first sync module has been invoked for both
\* connections and on_post_route for neither
C31_Witness ==
  /\ modules # <<>>
  /\ \A c \in Tasks :
       /\ \E k \in DOMAIN conn[c].log :
            conn[c].log[k] = Event("on_pre_route", "modules", 1)
       /\ \A k \in DOMAIN conn[c].log :
            conn[c].log[k].event # "on_post_route"

\* the locks connection c holds: guards and module lists
Held(c) ==
  Cardinality(conn[c].guards) + Cardinality({l \in Locks : locks[l] = c})

\* C37: a connection never holds two locks at the same time, and a
\* request that has been read gets to its write whatever the other
\* connection does
C37_OneLockAtATime ==
  /\ [](\A c \in Tasks : Held(c) <= 1)
  /\ \A c \in Tasks : (conn[c].pc = "lookup") ~> (conn[c].pc = "write")

\* one connection is in a loop over the sync modules, holding their lock,
\* while the other has the guard of the route's handler, whose future is
\* in progress
C37_Witness ==
  /\ InLoop("c1", "modules")
  /\ locks["modules"] = "c1"
  /\ RouteFuture("c2")
  /\ Held("c2") = 1

\* C35: once the footer partials have been called for a request, its
\* footer composite is their texts joined by single newlines, with no
\* newline after the last, also when add_footer is called on a clone of
\* the Router while the request is handled
C35_FooterJoined ==
  \A c \in Conns :
    conn[c].handled = "route"
      => conn[c].footer
           = Join(SubSeq(footers, 1, Invocations(c, "footers")), LF)

\* C38: a panic of a handler, a partial or a callback leaves the lock it
\* ran under usable: no mutex is poisoned and no later connection panics
\* at a lock()
C38_PanicLeavesLocksUsable ==
  /\ poisoned = {}
  /\ \A c \in Conns : conn[c].panic # "lock"

\* the request line the client of connection c sent ends with CRLF and
\* parses as a URL
WellFormed(c) ==
  /\ conn[c].sent # <<>>
  /\ Contains(conn[c].sent, CRLF)
  /\ ~Malformed(c)

\* C33: a connection whose request line contains CRLF and parses as a URL
\* is answered by handle() going through to write_all and shutdown, never
\* by or_error!, and when its response has been written exactly one
\* handler, the route's or the error handler, has been invoked for it,
\* once, and nothing else has been written
C33_OneResponse ==
  \A c \in Conns :
    WellFormed(c)
      => /\ conn[c].pc # "returned"
         /\ Written(c)
              => /\ Invocations(c, "route")
                      + Invocations(c, "error_handler") = 1
                 /\ Invocations(c, "stream") = 1

====
